---- MODULE Spec2Model ----
(***************************************************************************)
(* Match lifecycle of autoply: the Inbox and Draft pages                   *)
(* (src/src/pages/Inbox.tsx) working against the remote store (tables      *)
(* job_matches, application_drafts, submission_events) and the approve /   *)
(* skip edge functions, the onboarding check of the Inbox page against     *)
(* the resumes and preferences tables, and the health checks of the System *)
(* Status page (src/src/pages/SystemStatus.tsx).                           *)
(*                                                                         *)
(* Nullable columns are modelled as sets of at most one element: {} is     *)
(* SQL NULL / JS null, {v} is the value v.                                 *)
(***************************************************************************)
EXTENDS Integers, Sequences, FiniteSets, TLC

\* ------------------------------------------------------------------ bounds
MaxDraftRows == 3
MaxEvents == 2
MaxActs == 2
MaxActsSingle == 2
NumListMatches == 4
MaxActsLoad == 2
MaxRoles == 2
MaxActsRace == 3
MaxActsStatus == 2
MaxInFlight == 2
MaxActsOnboarding == 2
MaxActsEdit == 3

\* Match ids in creation order (created_at ascending).
Matches == {1, 2}
ListMatches == 1..NumListMatches
\* Browser sessions (tabs) of the one user.
Sessions == {"s1", "s2"}
\* A :matchId for which the store returns no row to the user (no such
\* match, or a match that row-level security hides).
NoSuchMatch == 3
\* auth.users: the signed-in user and another one.
TheUser == "u1"
Users == {"u1", "u2"}
\* The reads of the pages, by query key or table.
QueryKeys == {"job-matches", "job-match", "application-draft"}
GateTables == {"resumes", "preferences"}
\* The query keys of the System Status page, the variables it needs, and
\* the latencies (ms) a read can be measured to take.
StatusKeys == {"system-status-supabase", "system-status-env",
               "system-status-keywords", "system-status-auth"}
EnvVarNames == {"VITE_SUPABASE_URL", "VITE_SUPABASE_PUBLISHABLE_KEY"}
Latencies == {1, 20}

\* ------------------------------------------------------------ value spaces
None == {}
Some(x) == {x}
TheValue(opt) == CHOOSE v \in opt : TRUE

Questions == {"q"}
EmptyAnswers == [q \in {} |-> ""]
GeneratedText == "g"
UserTexts == {"a", "b"}
FitScores == {70, 90}

ActionableStatuses == {"DRAFTED", "NEEDS_REVIEW"}
TerminalStatuses == {"APPLIED", "SUBMITTED", "SKIPPED"}
Statuses == ActionableStatuses \cup TerminalStatuses

\* JS `draft.cover_letter || ""` : null and "" both give ""
CoverLetterOrEmpty(opt) == IF opt = None THEN "" ELSE TheValue(opt)
\* JS `draft.answers_json || {}` : null gives the empty mapping
AnswersOrEmpty(opt) == IF opt = None THEN EmptyAnswers ELSE TheValue(opt)

\* ------------------------------------------------------------------- state
VARIABLES
    status,        \* job_matches.status, by match id
    fit_score,     \* job_matches.fit_score (nullable), by match id
    drafts,        \* application_drafts rows in insertion order; id = index
    events,        \* submission_events rows, append-only
    page,          \* per session: the route shown ("inbox" | "draft" |
                   \* "run" | "onboarding" | "status"), or "closed" when
                   \* the session is not open
    matchId,       \* per session: the :matchId route parameter
    isEditing,     \* per session: Draft state isEditing
    coverLetter,   \* per session: Draft state coverLetter
    answers,       \* per session: Draft state answers
    mut,           \* per session: the mutations in flight, in the order
                   \* they were started, each with the step its mutationFn
                   \* has reached, what the store has answered to its
                   \* request (the answer is on its way) and whether its
                   \* Draft component is still mounted
    toast,         \* per session: the last notification shown
    hasSession,    \* per session: supabase.auth session present
    cache,         \* per session: the query cache: the job-matches query,
                   \* and the job-match and application-draft queries by
                   \* :matchId, each with its data, whether it is in error,
                   \* whether a fetch of it is in flight, and what the store
                   \* has answered to that fetch (the answer is on its way)
    unreachable,   \* the reads that fail (store unreachable or erroring)
    resumes,       \* resumes: the user_ids having a row (user_id is unique)
    preferences,   \* preferences row (nullable) by user_id
    onboardingStatus, \* per session: data of the onboarding-status query
    onboardingFetch,  \* per session: where the queryFn of the
                   \* onboarding-status query stands, and whether the
                   \* requests it has in flight carry the token of a session
    statusQuery,   \* per session: the four queries of the System Status page
    keywordsFetch, \* per session: the session the queryFn of keywordsCheck
                   \* has read, while its invocation of run-daily is awaited
    envVars,       \* the VITE_ variables set in the build
    runDaily,      \* the invocations of run-daily, by what each one did
    savedCoverLetter, \* per session, history only (the program keeps no such
                   \* field): the cover letter of the view's latest saveEdit
                   \* call, while that call has not failed and no cover letter
                   \* has been typed since
    acts           \* user gestures left to explore

storeVars == <<status, fit_score, drafts, events>>
compVars == <<matchId, isEditing, coverLetter, answers, savedCoverLetter>>
viewVars == <<page, matchId, isEditing, coverLetter, answers,
              savedCoverLetter, cache>>
statusVars == <<statusQuery, envVars, runDaily, keywordsFetch>>
vars == <<status, fit_score, drafts, events, page, matchId, isEditing,
          coverLetter, answers, mut, toast, hasSession, cache, unreachable,
          resumes, preferences, onboardingStatus, onboardingFetch,
          statusQuery, keywordsFetch, envVars, runDaily, savedCoverLetter,
          acts>>

\* ------------------------------------------------------------ store reads
NoRow == [st |-> "null", id |-> 0, cover_letter |-> None,
          answers_json |-> None, tailoring_notes |-> None]
UndefinedDraft == [NoRow EXCEPT !.st = "undefined"]
RowData(i) == [st |-> "row", id |-> i,
               cover_letter |-> drafts[i].cover_letter,
               answers_json |-> drafts[i].answers_json,
               tailoring_notes |-> drafts[i].tailoring_notes]

\* .from("job_matches").select(...).eq("id", matchId).maybeSingle():
\* the row, or null when the user can see no such row.
UndefinedMatch == [st |-> "undefined", status |-> ""]
SelectMatch(m) ==
    IF m \in DOMAIN status
    THEN [st |-> "row", status |-> status[m]]
    ELSE [st |-> "null", status |-> ""]

DraftRowsFor(m) == {i \in 1..Len(drafts) : drafts[i].job_match_id = m}

\* .from("application_drafts").select(...).eq("job_match_id", matchId)
\* .maybeSingle(): no row gives null, one row gives the row, several rows
\* give an error (reported here as st = "error").
SelectDraft(m) ==
    LET rows == DraftRowsFor(m) IN
    IF rows = {} THEN NoRow
    ELSE IF Cardinality(rows) = 1 THEN RowData(CHOOSE i \in rows : TRUE)
    ELSE [NoRow EXCEPT !.st = "error"]

\* Faulty variant of Actionable: the filter only leaves out SKIPPED.
ActionableNotSkipped == {m \in DOMAIN status : status[m] # "SKIPPED"}

\* .in("status", ["DRAFTED", "NEEDS_REVIEW"])
Actionable == {m \in DOMAIN status : status[m] \in {"DRAFTED", "NEEDS_REVIEW"}}

\* .order("fit_score", { ascending: false }) with no nullsFirst option is
\* ORDER BY fit_score DESC, for which the database puts NULLs first; rows
\* with equal fit_score come in an order the database is free to choose.
SortsBefore(a, b) ==
    \/ fit_score[a] = None /\ fit_score[b] # None
    \/ /\ fit_score[a] # None
       /\ fit_score[b] # None
       /\ TheValue(fit_score[a]) > TheValue(fit_score[b])

Orderings(S) ==
    {f \in [1..Cardinality(S) -> S] :
        \A i, j \in 1..Cardinality(S) : i # j => f[i] # f[j]}

JobMatchesQuery ==
    {seq \in Orderings(Actionable) :
        \A i, j \in 1..Len(seq) : i < j => ~SortsBefore(seq[j], seq[i])}

\* ----------------------------------------------------------- store writes
\* Faulty variant of UpdateDraft: the update also clears tailoring_notes.
UpdateDraftClearsNotes(id, cl, ans) ==
    [i \in 1..Len(drafts) |->
        IF i = id
        THEN [drafts[i] EXCEPT !.cover_letter = Some(cl),
                               !.answers_json = Some(ans),
                               !.tailoring_notes = None]
        ELSE drafts[i]]

\* Faulty variant of UpdateDraft: a row that already has content is kept
\* (the first write wins).
UpdateDraftFirstWins(id, cl, ans) ==
    [i \in 1..Len(drafts) |->
        IF i = id /\ drafts[i].cover_letter = None
        THEN [drafts[i] EXCEPT !.cover_letter = Some(cl),
                               !.answers_json = Some(ans)]
        ELSE drafts[i]]

\* .from("application_drafts").update({cover_letter, answers_json})
\* .eq("id", id): rewrites the two columns of the row with that id.
UpdateDraft(id, cl, ans) ==
    [i \in 1..Len(drafts) |->
        IF i = id
        THEN [drafts[i] EXCEPT !.cover_letter = Some(cl),
                               !.answers_json = Some(ans)]
        ELSE drafts[i]]

\* .from("application_drafts").insert({job_match_id, cover_letter,
\* answers_json}): appends a row; tailoring_notes is left NULL.
InsertDraft(m, cl, ans) ==
    Append(drafts, [job_match_id |-> m, cover_letter |-> Some(cl),
                    answers_json |-> Some(ans), tailoring_notes |-> None])

\* ------------------------------------------------------------- view state
\* A mutation in flight: `phase` is "auth" while mutationFn awaits
\* supabase.auth.getSession() and "sent" while it awaits the store;
\* `reply` is null until the store has handled the request, then what it
\* answered ("ok" or the error), not yet received; `mounted` says whether
\* the Draft component that started it is still mounted (its isPending is
\* read by that component only).
NoMut == [kind |-> "none", draftId |-> 0, matchId |-> 0,
          cover_letter |-> "", answers_json |-> EmptyAnswers,
          phase |-> "", reply |-> None, mounted |-> FALSE]
NoToast == [title |-> "", description |-> "", variant |-> "default"]
Toast(t, d) == [title |-> t, description |-> d, variant |-> "default"]
ErrorToast(d) == [title |-> "Error", description |-> d, variant |-> "destructive"]

\* The mutation of the mounted Draft component (there is at most one), or
\* NoMut.
ViewMut(s) ==
    IF \E i \in DOMAIN mut[s] : mut[s][i].mounted
    THEN mut[s][CHOOSE i \in DOMAIN mut[s] : mut[s][i].mounted]
    ELSE NoMut

\* Faulty variant of isSaving: only the save mutation is looked at.
isSavingSaveOnly(s) == ViewMut(s).kind = "save"

\* const isSaving = updateDraftMutation.isPending || approveMutation.isPending
\*                  || skipMutation.isPending
isSaving(s) == ViewMut(s).kind \in {"save", "approve", "skip"}


\* ------------------------------------------------------------ query cache
\* A query of the cache: `data` (null when it has none), whether it is in
\* error, whether a fetch of it is in flight, and `reply`: null until the
\* store has read for that fetch, then what it read, not yet received.
\* NoQuery: the cache holds nothing for the key.
NoQuery == [data |-> None, error |-> FALSE, fetching |-> FALSE,
            reply |-> None]
HasData(q) == q.data # None

\* A fetch of the query starts (its observer mounts or the window gets the
\* focus): a query in error that has no data goes back to pending, one
\* that has data keeps its error until the answer. A fetch that is in
\* flight is kept.
StartFetch(q) ==
    IF q.fetching THEN q
    ELSE [q EXCEPT !.fetching = TRUE,
                   !.error = IF HasData(q) THEN @ ELSE FALSE]

\* invalidateQueries on an observed query: it is fetched again; a fetch
\* in flight is cancelled and replaced by a new request when the query has
\* data, and kept when it has none.
Refetch(q) ==
    IF q.fetching /\ HasData(q) THEN [q EXCEPT !.reply = None]
    ELSE StartFetch(q)

\* What the store answers to a read: the data, or an error.
Returned(d) == [error |-> FALSE, data |-> Some(d)]
Thrown == [error |-> TRUE, data |-> None]

\* The fetch is answered: `return data` / `throw error`. A failure leaves
\* the data as it was.
Succeeded(d) == [data |-> Some(d), error |-> FALSE, fetching |-> FALSE,
                 reply |-> None]
Failed(q) == [q EXCEPT !.error = TRUE, !.fetching = FALSE, !.reply = None]
\* The answer the store gave reaches the client.
Delivered(q) ==
    IF TheValue(q.reply).error THEN Failed(q)
    ELSE Succeeded(TheValue(TheValue(q.reply).data))

\* What a component that mounts finds of a query nothing was observing: the
\* query as it was left, or nothing when it has been collected since (a
\* query is only collected while no fetch of it is in flight). It is stale
\* in both cases and a fetch starts.
Found(q) == IF q.fetching THEN {q} ELSE {q, NoQuery}
Observed(q) == {StartFetch(f) : f \in Found(q)}

CacheKeys == Matches \cup {NoSuchMatch}
EmptyCache == [list |-> NoQuery,
               match |-> [m \in CacheKeys |-> NoQuery],
               draft |-> [m \in CacheKeys |-> NoQuery]]

\* The queries the Draft component of session s observes.
matchQuery(s) ==
    IF page[s] = "draft" THEN cache[s].match[matchId[s]] ELSE NoQuery
draftQuery(s) ==
    IF page[s] = "draft" THEN cache[s].draft[matchId[s]] ELSE NoQuery

\* const { data: matches, isLoading, error } = useQuery(["job-matches"])
matches == [s \in Sessions |-> cache[s].list.data]
\* const { data: match, ... } = useQuery(["job-match", matchId])
match ==
    [s \in Sessions |->
        IF HasData(matchQuery(s)) THEN TheValue(matchQuery(s).data)
        ELSE UndefinedMatch]
\* const { data: draft, ... } = useQuery(["application-draft", matchId])
draft ==
    [s \in Sessions |->
        IF HasData(draftQuery(s)) THEN TheValue(draftQuery(s).data)
        ELSE UndefinedDraft]
\* The query keys whose query, as session s observes or caches it, is in
\* error.
queryError ==
    [s \in Sessions |->
        {k \in QueryKeys :
            \/ k = "job-matches" /\ cache[s].list.error
            \/ k = "job-match" /\ matchQuery(s).error
            \/ k = "application-draft" /\ draftQuery(s).error}]

\* useQuery's isLoading: the first fetch is in flight (pending and
\* fetching: no data, no error).
QueryLoading(q) == q.fetching /\ ~HasData(q) /\ ~q.error
matchLoading(s) == QueryLoading(matchQuery(s))
draftLoading(s) == QueryLoading(draftQuery(s))
\* const isLoading = matchLoading || draftLoading
isLoading(s) == matchLoading(s) \/ draftLoading(s)
\* error: matchError of the job-match query
matchError(s) == matchQuery(s).error

\* Faulty variant of DraftRender: without the "Job match not found." branch.
DraftRenderNoNotFound(s) ==
    IF matchError(s) THEN "error" ELSE "page"

\* What the Draft component returns: the "Failed to load job match." card
\* if (matchError), the "Job match not found." card if (!isLoading &&
\* !match), the page with its buttons otherwise.
DraftRender(s) ==
    IF matchError(s) THEN "error"
    ELSE IF ~isLoading(s) /\ match[s].st # "row" THEN "not-found"
    ELSE "page"

\* {!draft && !isEditing && <p>No draft found. Click Edit to start writing
\* your application.</p>} inside the loaded page
NoDraftFoundShown(s) ==
    /\ DraftRender(s) = "page"
    /\ ~isLoading(s)
    /\ draft[s].st # "row"
    /\ ~isEditing[s]

\* const needsReview = match?.status === "NEEDS_REVIEW"
needsReview(s) == match[s].st = "row" /\ match[s].status = "NEEDS_REVIEW"
\* const tailoringNotes = draft?.tailoring_notes
tailoringNotes(s) == draft[s].tailoring_notes

\* {needsReview && <Card>This application needs your review ...} inside the
\* page
NeedsReviewWarning(s) ==
    page[s] = "draft" /\ DraftRender(s) = "page" /\ needsReview(s)

\* The <li> items of the warning: tailoringNotes.issues when
\* tailoringNotes?.issues && tailoringNotes.issues.length > 0
IssuesShown(s) ==
    IF NeedsReviewWarning(s) /\ tailoringNotes(s) # None
    THEN TheValue(tailoringNotes(s)).issues
    ELSE <<>>

\* What the Inbox component shows for the job-matches query: the skeletons
\* while isLoading, the "Failed to load job matches" card when error is set
\* (the list and the empty state are hidden then), else the empty state or
\* the list.
InboxRender(s) ==
    IF cache[s].list.error THEN "error"
    ELSE IF QueryLoading(cache[s].list) THEN "loading"
    ELSE IF matches[s] = None THEN "blank"
    ELSE IF Len(TheValue(matches[s])) = 0 THEN "empty"
    ELSE "list"

\* The Draft component's state right after mounting on /draft/m, the cache
\* holding q for the application-draft query of the route: useState(false),
\* useState(""), useState({}), and the effect on `draft`, which runs after
\* the first render. With m = 0 and q = NoQuery: the state of a session in
\* which no Draft component is mounted.
FreshView(s, m, q) ==
    /\ matchId' = [matchId EXCEPT ![s] = m]
    /\ isEditing' = [isEditing EXCEPT ![s] = FALSE]
    /\ coverLetter' = [coverLetter EXCEPT ![s] =
                         IF HasData(q) /\ TheValue(q.data).st = "row"
                         THEN CoverLetterOrEmpty(TheValue(q.data).cover_letter)
                         ELSE ""]
    /\ answers' = [answers EXCEPT ![s] =
                         IF HasData(q) /\ TheValue(q.data).st = "row"
                         THEN AnswersOrEmpty(TheValue(q.data).answers_json)
                         ELSE EmptyAnswers]
    /\ savedCoverLetter' = [savedCoverLetter EXCEPT ![s] = None]

\* The Draft component of session s, if one is mounted, unmounts: its state
\* is dropped; the queries stay in the cache and their fetches go on.
LeaveDraft(s) == FreshView(s, 0, NoQuery)

Gesture == acts > 0 /\ acts' = acts - 1

\* A session starts at a route the user opened: the inbox or
\* /draft/:matchId, with the page's state as mounted and nothing loaded.
Routes == {0} \cup Matches

\* The onboarding-status query is not fetching; its queryFn has been called
\* and awaits getUser(), whose request carries the token of the session
\* there was at the call (bearer), if any.
NotFetching == [stage |-> "idle", bearer |-> FALSE, user |-> None,
                resumeData |-> None, prefsData |-> None]
FetchingUser(bearer) ==
    [NotFetching EXCEPT !.stage = "user", !.bearer = bearer]

\* A fetch of the onboarding-status query starts unless one is in flight.
OnboardingFetchStarts(s) ==
    onboardingFetch' = [onboardingFetch EXCEPT ![s] =
                          IF @.stage = "idle"
                          THEN FetchingUser(hasSession[s]) ELSE @]

\* The Inbox component of session s mounts, the cache of the session being
\* c: its queries are observed again, each on what the cache still holds of
\* it, and fetched.
InboxMounts(s, c) ==
    /\ page' = [page EXCEPT ![s] = "inbox"]
    /\ \E l \in Observed(c.list) :
          cache' = [cache EXCEPT ![s] = [c EXCEPT !.list = l]]
    /\ \E o \in IF onboardingFetch[s].stage = "idle"
                THEN {onboardingStatus[s], None}
                ELSE {onboardingStatus[s]} :
          onboardingStatus' = [onboardingStatus EXCEPT ![s] = o]
    /\ OnboardingFetchStarts(s)

\* The cache of a session whose page at route m (0: the inbox) has just
\* mounted for the first time.
MountedCache(m) ==
    [list |-> IF m = 0 THEN StartFetch(NoQuery) ELSE NoQuery,
     match |-> [k \in CacheKeys |->
                  IF k = m THEN StartFetch(NoQuery) ELSE NoQuery],
     draft |-> [k \in CacheKeys |->
                  IF k = m THEN StartFetch(NoQuery) ELSE NoQuery]]

InitViews(open, routes) ==
    /\ matchId \in [Sessions -> routes \cup {0}]
    /\ \A s \in Sessions :
          IF s \in open THEN matchId[s] \in routes ELSE matchId[s] = 0
    /\ page = [s \in Sessions |->
                 IF s \notin open THEN "closed"
                 ELSE IF matchId[s] = 0 THEN "inbox" ELSE "draft"]
    /\ isEditing = [s \in Sessions |-> FALSE]
    /\ coverLetter = [s \in Sessions |-> ""]
    /\ answers = [s \in Sessions |-> EmptyAnswers]
    /\ cache = [s \in Sessions |->
                  IF s \in open THEN MountedCache(matchId[s])
                  ELSE EmptyCache]
    /\ onboardingStatus = [s \in Sessions |-> None]
    /\ onboardingFetch = [s \in Sessions |->
                            IF s \in open /\ matchId[s] = 0
                            THEN FetchingUser(TRUE) ELSE NotFetching]
    /\ savedCoverLetter = [s \in Sessions |-> None]
    /\ mut = [s \in Sessions |-> <<>>]
    /\ toast = [s \in Sessions |-> NoToast]
    /\ hasSession = [s \in Sessions |-> TRUE]

\* The System Status page has not been opened; the build has its variables.
PendingQuery == [status |-> "pending", data |-> None, error |-> None,
                 fetching |-> FALSE]
StatusNotOpened ==
    /\ statusQuery = [s \in Sessions |-> [k \in StatusKeys |-> PendingQuery]]
    /\ keywordsFetch = [s \in Sessions |-> None]
    /\ envVars = EnvVarNames
    /\ runDaily = <<>>

\* preferences.roles: a nullable list of role names.
RoleLists == UNION {[1..n -> {"r"}] : n \in 0..MaxRoles}
PreferencesRows == {[roles |-> r] : r \in {None} \cup {Some(l) : l \in RoleLists}}

\* The signed-in user has uploaded a resume and set preferences.
OnboardedProfile ==
    /\ resumes = {TheUser}
    /\ preferences = [u \in Users |->
                        IF u = TheUser THEN Some([roles |-> Some(<<"r">>)])
                        ELSE None]

\* The pipeline has written the matches (DRAFTED, or NEEDS_REVIEW when the
\* draft it generates has issues); drafts are written by PipelineDraft.
Init ==
    /\ status = [m \in Matches |-> IF m = 1 THEN "DRAFTED" ELSE "NEEDS_REVIEW"]
    /\ fit_score = [m \in Matches |-> IF m = 1 THEN Some(90) ELSE None]
    /\ drafts = <<>>
    /\ events = <<>>
    /\ OnboardedProfile
    /\ StatusNotOpened
    /\ unreachable = {}
    /\ InitViews(Sessions, {0, 1})
    /\ acts = MaxActs

\* --------------------------------------------------------------- pipeline
\* run-daily's drafting step: writes the draft of a match that has none.
\* A DRAFTED match gets the generated text; a NEEDS_REVIEW match is one
\* whose generation reported issues and left the content columns NULL.
PipelineDraft(m) ==
    /\ status[m] \in ActionableStatuses
    /\ DraftRowsFor(m) = {}
    /\ Len(drafts) < MaxDraftRows
    /\ drafts' = Append(drafts,
            IF status[m] = "DRAFTED"
            THEN [job_match_id |-> m,
                  cover_letter |-> Some(GeneratedText),
                  answers_json |-> Some([q \in Questions |-> GeneratedText]),
                  tailoring_notes |-> Some([issues |-> <<>>])]
            ELSE [job_match_id |-> m,
                  cover_letter |-> None,
                  answers_json |-> None,
                  tailoring_notes |-> Some([issues |-> <<"issue">>])])
    /\ UNCHANGED <<status, fit_score, events, page, matchId, isEditing,
                   coverLetter, answers, mut, toast, hasSession, cache,
                   unreachable, resumes, preferences, onboardingStatus,
                   onboardingFetch, statusVars, savedCoverLetter, acts>>

\* ------------------------------------------------------------- navigation
RemoveAt(seq, i) ==
    [j \in 1..(Len(seq) - 1) |-> IF j < i THEN seq[j] ELSE seq[j + 1]]
\* The mutations of a component that unmounts stay in flight; their
\* callbacks still run when they settle.
Unmounted(seq) == [j \in DOMAIN seq |-> [seq[j] EXCEPT !.mounted = FALSE]]

\* <Link to={`/draft/${match.id}`}> in the list, or the browser's history
\* back to a /draft/:matchId route shown before (that of a match the user
\* does not have included): the Inbox component unmounts and the Draft
\* component mounts, its two queries observed on what the cache still
\* holds of them, and fetched.
OpenDraft(s, m) ==
    /\ page[s] = "inbox"
    /\ Gesture
    /\ page' = [page EXCEPT ![s] = "draft"]
    /\ \E a \in Observed(cache[s].match[m]), b \in Observed(cache[s].draft[m]) :
          /\ cache' = [cache EXCEPT ![s].match[m] = a, ![s].draft[m] = b]
          /\ FreshView(s, m, b)
    /\ UNCHANGED <<storeVars, mut, toast, hasSession, unreachable, resumes,
                   preferences, onboardingStatus, onboardingFetch,
                   statusVars>>

\* "Back to Inbox": navigate("/inbox"); the Draft component unmounts and
\* its state is dropped, a mutation or a fetch in flight completes in the
\* background; the Inbox component mounts.
BackToInbox(s) ==
    /\ page[s] = "draft"
    /\ Gesture
    /\ LeaveDraft(s)
    /\ InboxMounts(s, cache[s])
    /\ mut' = [mut EXCEPT ![s] = Unmounted(@)]
    /\ UNCHANGED <<storeVars, toast, hasSession, unreachable, resumes,
                   preferences, statusVars>>

\* "Check today's open roles": onClick={() => navigate("/admin/run")}; the
\* Inbox component unmounts, its queries stay in the cache.
ClickCheckRoles(s) ==
    /\ page[s] = "inbox"
    /\ Gesture
    /\ page' = [page EXCEPT ![s] = "run"]
    /\ UNCHANGED <<storeVars, matchId, isEditing, coverLetter, answers, mut,
                   toast, hasSession, cache, unreachable, resumes,
                   preferences, onboardingStatus, onboardingFetch, statusVars,
                   savedCoverLetter>>

\* "Complete Setup", rendered with the onboarding warning
\* (onboardingStatus && !onboardingStatus.complete):
\* onClick={() => navigate("/onboarding")}
ClickCompleteSetup(s) ==
    /\ page[s] = "inbox"
    /\ onboardingStatus[s] # None
    /\ ~TheValue(onboardingStatus[s]).complete
    /\ Gesture
    /\ page' = [page EXCEPT ![s] = "onboarding"]
    /\ UNCHANGED <<storeVars, matchId, isEditing, coverLetter, answers, mut,
                   toast, hasSession, cache, unreachable, resumes,
                   preferences, onboardingStatus, onboardingFetch, statusVars,
                   savedCoverLetter>>

\* The browser's history back from /admin/run or /onboarding to the inbox:
\* the Inbox component mounts again.
BrowserBack(s) ==
    /\ page[s] \in {"run", "onboarding"}
    /\ Gesture
    /\ InboxMounts(s, cache[s])
    /\ UNCHANGED <<storeVars, matchId, isEditing, coverLetter, answers, mut,
                   toast, hasSession, unreachable, resumes, preferences,
                   statusVars, savedCoverLetter>>

\* The auth session of a tab ends (sign-out or expiry).
SessionEnds(s) ==
    /\ page[s] # "closed"
    /\ hasSession[s]
    /\ Gesture
    /\ hasSession' = [hasSession EXCEPT ![s] = FALSE]
    /\ UNCHANGED <<storeVars, page, matchId, isEditing, coverLetter, answers,
                   mut, toast, cache, unreachable, resumes, preferences,
                   onboardingStatus, onboardingFetch, statusVars,
                   savedCoverLetter>>

\* ---------------------------------------------------------------- queries
\* Each fetch has two steps after its start: the store reads for the
\* request, and the answer reaches the client, whatever page the session
\* shows by then. What is delivered is what the store read, whatever has
\* been written since.

\* The store reads for the fetch of the job-matches query that is in
\* flight: the list as the tables hold it now, or an error.
JobMatchesRead(s) ==
    /\ cache[s].list.fetching
    /\ cache[s].list.reply = None
    /\ IF "job-matches" \in unreachable
       THEN cache' = [cache EXCEPT ![s].list.reply = Some(Thrown)]
       ELSE \E seq \in JobMatchesQuery :
               cache' = [cache EXCEPT ![s].list.reply = Some(Returned(seq))]
    /\ UNCHANGED <<storeVars, page, matchId, isEditing, coverLetter, answers,
                   mut, toast, hasSession, unreachable, resumes, preferences,
                   onboardingStatus, onboardingFetch, statusVars,
                   savedCoverLetter, acts>>

\* The answer to the fetch of the job-matches query arrives: the list is
\* cached; `if (error) throw error` puts the query in error, its data
\* kept.
InboxQuery(s) ==
    /\ cache[s].list.reply # None
    /\ cache' = [cache EXCEPT ![s].list = Delivered(@)]
    /\ UNCHANGED <<storeVars, page, matchId, isEditing, coverLetter, answers,
                   mut, toast, hasSession, unreachable, resumes, preferences,
                   onboardingStatus, onboardingFetch, statusVars,
                   savedCoverLetter, acts>>

\* The store reads for the fetch of a job-match query that is in flight:
\*   .eq("id", matchId!).maybeSingle()
JobMatchRead(s) ==
    \E m \in CacheKeys :
    /\ cache[s].match[m].fetching
    /\ cache[s].match[m].reply = None
    /\ cache' = [cache EXCEPT ![s].match[m].reply =
                   IF "job-match" \in unreachable THEN Some(Thrown)
                   ELSE Some(Returned(SelectMatch(m)))]
    /\ UNCHANGED <<storeVars, page, matchId, isEditing, coverLetter, answers,
                   mut, toast, hasSession, unreachable, resumes, preferences,
                   onboardingStatus, onboardingFetch, statusVars,
                   savedCoverLetter, acts>>

\* The answer to the fetch of a job-match query arrives:
\*   if (error) throw error; return data as JobMatch | null
\* A failed read puts the query in error and leaves its data as it was.
MatchQuery(s) ==
    \E m \in CacheKeys :
    /\ cache[s].match[m].reply # None
    /\ cache' = [cache EXCEPT ![s].match[m] = Delivered(@)]
    /\ UNCHANGED <<storeVars, page, matchId, isEditing, coverLetter, answers,
                   mut, toast, hasSession, unreachable, resumes, preferences,
                   onboardingStatus, onboardingFetch, statusVars,
                   savedCoverLetter, acts>>

\* The store reads for the fetch of an application-draft query that is in
\* flight:
\*   .eq("job_match_id", matchId!).maybeSingle()
\* The read fails when the store is unreachable and when the match has
\* several rows.
ApplicationDraftRead(s) ==
    \E m \in CacheKeys :
    /\ cache[s].draft[m].fetching
    /\ cache[s].draft[m].reply = None
    /\ cache' = [cache EXCEPT ![s].draft[m].reply =
                   IF \/ "application-draft" \in unreachable
                      \/ SelectDraft(m).st = "error"
                   THEN Some(Thrown)
                   ELSE Some(Returned(SelectDraft(m)))]
    /\ UNCHANGED <<storeVars, page, matchId, isEditing, coverLetter, answers,
                   mut, toast, hasSession, unreachable, resumes, preferences,
                   onboardingStatus, onboardingFetch, statusVars,
                   savedCoverLetter, acts>>

\* Faulty variant of DraftQuery: a view in editing mode keeps its working
\* copy when a new draft value is delivered.
DraftQueryKeepsEdits(s) ==
    \E m \in CacheKeys :
    /\ cache[s].draft[m].reply # None
    /\ LET q == Delivered(cache[s].draft[m]) IN
       /\ cache' = [cache EXCEPT ![s].draft[m] = q]
       /\ IF /\ page[s] = "draft" /\ matchId[s] = m
             /\ q.data # cache[s].draft[m].data
             /\ TheValue(q.data).st = "row"
             /\ ~isEditing[s]
          THEN /\ coverLetter' = [coverLetter EXCEPT ![s] =
                     CoverLetterOrEmpty(TheValue(q.data).cover_letter)]
               /\ answers' = [answers EXCEPT ![s] =
                     AnswersOrEmpty(TheValue(q.data).answers_json)]
          ELSE UNCHANGED <<coverLetter, answers>>
    /\ UNCHANGED <<storeVars, page, matchId, isEditing, mut, toast,
                   hasSession, unreachable, resumes, preferences,
                   onboardingStatus, onboardingFetch, statusVars,
                   savedCoverLetter, acts>>

\* The answer to the fetch of an application-draft query arrives, and the
\* effect on `draft` runs in the Draft component that observes it:
\*   if (error) throw error; return data
\*   useEffect(() => { if (draft) { setCoverLetter(draft.cover_letter || "");
\*                                  setAnswers(draft.answers_json || {}); } },
\*             [draft])
\* It is answered on its own, before or after the job-match query. A failed
\* read puts the query in error and leaves its data as it was; the
\* component does not read `error` of this query. Data equal to the data
\* held is the same `draft` for the effect.
DraftQuery(s) ==
    \E m \in CacheKeys :
    /\ cache[s].draft[m].reply # None
    /\ LET q == Delivered(cache[s].draft[m]) IN
       /\ cache' = [cache EXCEPT ![s].draft[m] = q]
       /\ IF /\ page[s] = "draft" /\ matchId[s] = m
             /\ q.data # cache[s].draft[m].data
             /\ TheValue(q.data).st = "row"
          THEN /\ coverLetter' = [coverLetter EXCEPT ![s] =
                     CoverLetterOrEmpty(TheValue(q.data).cover_letter)]
               /\ answers' = [answers EXCEPT ![s] =
                     AnswersOrEmpty(TheValue(q.data).answers_json)]
          ELSE UNCHANGED <<coverLetter, answers>>
    /\ UNCHANGED <<storeVars, page, matchId, isEditing, mut, toast,
                   hasSession, unreachable, resumes, preferences,
                   onboardingStatus, onboardingFetch, statusVars,
                   savedCoverLetter, acts>>

\* ---------------------------------------------------------------- editing
\* Edit button: onClick={() => setIsEditing(true)} disabled={isSaving}
ClickEdit(s) ==
    /\ page[s] = "draft"
    /\ DraftRender(s) = "page"
    /\ ~isEditing[s]
    /\ ~isSaving(s)
    /\ Gesture
    /\ isEditing' = [isEditing EXCEPT ![s] = TRUE]
    /\ UNCHANGED <<storeVars, page, matchId, coverLetter, answers, mut, toast,
                   hasSession, cache, unreachable, resumes, preferences,
                   onboardingStatus, onboardingFetch, statusVars,
                   savedCoverLetter>>

\* Faulty variant of ClickCancel: the working copy is put back to the
\* fetched draft.
ClickCancelRestores(s) ==
    /\ page[s] = "draft"
    /\ DraftRender(s) = "page"
    /\ isEditing[s]
    /\ ~isSaving(s)
    /\ Gesture
    /\ isEditing' = [isEditing EXCEPT ![s] = FALSE]
    /\ coverLetter' = [coverLetter EXCEPT ![s] =
                         CoverLetterOrEmpty(draft[s].cover_letter)]
    /\ answers' = [answers EXCEPT ![s] = AnswersOrEmpty(draft[s].answers_json)]
    /\ UNCHANGED <<storeVars, page, matchId, mut, toast, hasSession, cache,
                   unreachable, resumes, preferences, onboardingStatus,
                   onboardingFetch, statusVars, savedCoverLetter>>

\* Cancel button: onClick={() => setIsEditing(false)} disabled={isSaving}
ClickCancel(s) ==
    /\ page[s] = "draft"
    /\ DraftRender(s) = "page"
    /\ isEditing[s]
    /\ ~isSaving(s)
    /\ Gesture
    /\ isEditing' = [isEditing EXCEPT ![s] = FALSE]
    /\ UNCHANGED <<storeVars, page, matchId, coverLetter, answers, mut, toast,
                   hasSession, cache, unreachable, resumes, preferences,
                   onboardingStatus, onboardingFetch, statusVars,
                   savedCoverLetter>>

\* Cover letter Textarea (rendered when isEditing and not loading):
\* onChange={(e) => setCoverLetter(e.target.value)}
TypeCoverLetter(s, t) ==
    /\ page[s] = "draft"
    /\ DraftRender(s) = "page"
    /\ isEditing[s]
    /\ ~isLoading(s)
    /\ t # coverLetter[s]
    /\ Gesture
    /\ coverLetter' = [coverLetter EXCEPT ![s] = t]
    /\ savedCoverLetter' = [savedCoverLetter EXCEPT ![s] = None]
    /\ UNCHANGED <<storeVars, page, matchId, isEditing, answers, mut, toast,
                   hasSession, cache, unreachable, resumes, preferences,
                   onboardingStatus, onboardingFetch, statusVars>>

\* Answer Textarea, one per existing question:
\* onChange={(e) => setAnswers({ ...answers, [question]: e.target.value })}
TypeAnswer(s, q, t) ==
    /\ page[s] = "draft"
    /\ DraftRender(s) = "page"
    /\ isEditing[s]
    /\ ~isLoading(s)
    /\ q \in DOMAIN answers[s]
    /\ t # answers[s][q]
    /\ Gesture
    /\ answers' = [answers EXCEPT ![s] = [answers[s] EXCEPT ![q] = t]]
    /\ UNCHANGED <<storeVars, page, matchId, isEditing, coverLetter, mut,
                   toast, hasSession, cache, unreachable, resumes,
                   preferences, onboardingStatus, onboardingFetch, statusVars,
                   savedCoverLetter>>

\* -------------------------------------------------------------- mutations
\* The mutation at position i of session s has settled.
Settled(s, i) == mut' = [mut EXCEPT ![s] = RemoveAt(@, i)]

\* handleSave: updateDraftMutation.mutate({ cover_letter: coverLetter,
\* answers_json: answers }); mutationFn branches on `draft?.id` as the view
\* holds it when the mutation starts, and awaits the store only.
SaveRequest(s) ==
    [kind |-> "save", draftId |-> draft[s].id, matchId |-> matchId[s],
     cover_letter |-> coverLetter[s], answers_json |-> answers[s],
     phase |-> "sent", reply |-> None, mounted |-> TRUE]

handleSave(s) ==
    /\ page[s] = "draft"
    /\ DraftRender(s) = "page"
    /\ isEditing[s]
    /\ ~isSaving(s)
    /\ Len(mut[s]) < MaxInFlight
    /\ Gesture
    /\ mut' = [mut EXCEPT ![s] = Append(@, SaveRequest(s))]
    /\ savedCoverLetter' = [savedCoverLetter EXCEPT ![s] = Some(coverLetter[s])]
    /\ UNCHANGED <<storeVars, page, matchId, isEditing, coverLetter, answers,
                   toast, hasSession, cache, unreachable, resumes,
                   preferences, onboardingStatus, onboardingFetch,
                   statusVars>>

\* updateDraftMutation.mutationFn against the store: update by id when the
\* view held a draft id, insert otherwise.
SaveWrite(r) ==
    IF r.draftId # 0
    THEN UpdateDraft(r.draftId, r.cover_letter, r.answers_json)
    ELSE InsertDraft(r.matchId, r.cover_letter, r.answers_json)

\* queryClient.invalidateQueries({ queryKey: ["application-draft", m] })
\* and ({ queryKey: ["job-match", m] }) on the cache c of session s: a
\* query that a mounted component observes is fetched again, another one
\* is not.
InvalidateDraft(s, c, m) ==
    IF page[s] = "draft" /\ matchId[s] = m
    THEN [c EXCEPT !.draft[m] = Refetch(@)]
    ELSE c
InvalidateMatch(s, c, m) ==
    IF page[s] = "draft" /\ matchId[s] = m
    THEN [c EXCEPT !.match[m] = Refetch(@)]
    ELSE c
\* queryClient.invalidateQueries({ queryKey: ["job-matches"] })
InvalidateList(s, c) ==
    IF page[s] = "inbox" THEN [c EXCEPT !.list = Refetch(@)] ELSE c

\* updateDraftMutation.onSuccess: invalidate the application-draft query
\* of the route the mutation was started on, setIsEditing(false), toast.
\* setIsEditing on a component that has unmounted does nothing.
SaveSuccess(s, i) ==
    /\ cache' = [cache EXCEPT ![s] =
                   InvalidateDraft(s, @, mut[s][i].matchId)]
    /\ isEditing' = [isEditing EXCEPT ![s] =
                       IF mut[s][i].mounted THEN FALSE ELSE @]
    /\ toast' = [toast EXCEPT ![s] =
                   Toast("Draft saved", "Your changes have been saved.")]
    /\ Settled(s, i)
    /\ UNCHANGED savedCoverLetter

\* Faulty variant of SaveError: the error is shown and the editor is closed.
SaveErrorClosesEditor(s, i) ==
    /\ toast' = [toast EXCEPT ![s] = ErrorToast("Failed to save draft.")]
    /\ Settled(s, i)
    /\ savedCoverLetter' = [savedCoverLetter EXCEPT ![s] =
                              IF mut[s][i].mounted THEN None ELSE @]
    /\ isEditing' = [isEditing EXCEPT ![s] = FALSE]
    /\ UNCHANGED cache

\* updateDraftMutation.onError
SaveError(s, i) ==
    /\ toast' = [toast EXCEPT ![s] = ErrorToast("Failed to save draft.")]
    /\ Settled(s, i)
    /\ savedCoverLetter' = [savedCoverLetter EXCEPT ![s] =
                              IF mut[s][i].mounted THEN None ELSE @]
    /\ UNCHANGED <<isEditing, cache>>

\* Faulty variant of SaveHandled: the write also marks the match DRAFTED.
SaveHandledMarksDrafted(s) ==
    \E i \in DOMAIN mut[s] :
    /\ mut[s][i].kind = "save"
    /\ mut[s][i].reply = None
    /\ mut[s][i].draftId # 0 \/ Len(drafts) < MaxDraftRows
    /\ drafts' = SaveWrite(mut[s][i])
    /\ status' = [status EXCEPT ![mut[s][i].matchId] = "DRAFTED"]
    /\ mut' = [mut EXCEPT ![s][i].reply = Some("ok")]
    /\ UNCHANGED <<fit_score, events, page, matchId, isEditing, coverLetter,
                   answers, toast, hasSession, cache, unreachable, resumes,
                   preferences, onboardingStatus, onboardingFetch, statusVars,
                   savedCoverLetter, acts>>

\* The store handles the request of a save: the update or the insert is
\* applied; the answer is on its way.
SaveHandled(s) ==
    \E i \in DOMAIN mut[s] :
    /\ mut[s][i].kind = "save"
    /\ mut[s][i].reply = None
    /\ mut[s][i].draftId # 0 \/ Len(drafts) < MaxDraftRows
    /\ drafts' = SaveWrite(mut[s][i])
    /\ mut' = [mut EXCEPT ![s][i].reply = Some("ok")]
    /\ UNCHANGED <<status, fit_score, events, page, matchId, isEditing,
                   coverLetter, answers, toast, hasSession, cache,
                   unreachable, resumes, preferences, onboardingStatus,
                   onboardingFetch, statusVars, savedCoverLetter, acts>>

\* The save settles: the answer of the store arrives (onSuccess), or the
\* request or its answer is lost (the store unreachable) and mutationFn
\* throws (onError), whether or not the write was applied.
SaveSettle(s) ==
    \E i \in DOMAIN mut[s] :
    /\ mut[s][i].kind = "save"
    /\ \/ /\ mut[s][i].reply = Some("ok")
          /\ SaveSuccess(s, i)
       \/ SaveError(s, i)
    /\ UNCHANGED <<storeVars, page, matchId, coverLetter, answers, hasSession,
                   unreachable, resumes, preferences, onboardingStatus,
                   onboardingFetch, statusVars, acts>>

\* Faulty variant of ApproveRequest: the body is built from the fetched draft
\* instead of the view's working copy.
ApproveRequestFromDraft(s) ==
    [kind |-> "approve", draftId |-> 0, matchId |-> matchId[s],
     cover_letter |-> CoverLetterOrEmpty(draft[s].cover_letter),
     answers_json |-> AnswersOrEmpty(draft[s].answers_json),
     phase |-> "auth", reply |-> None, mounted |-> TRUE]

\* approveMutation.mutate(): mutationFn runs with the matchId, coverLetter
\* and answers of the render in which Approve was clicked, which make the
\* body of functions.invoke("approve"); it first awaits getSession().
ApproveRequest(s) ==
    [kind |-> "approve", draftId |-> 0, matchId |-> matchId[s],
     cover_letter |-> coverLetter[s], answers_json |-> answers[s],
     phase |-> "auth", reply |-> None, mounted |-> TRUE]

\* skipMutation.mutate(): the body of functions.invoke("skip").
SkipRequest(s) ==
    [kind |-> "skip", draftId |-> 0, matchId |-> matchId[s],
     cover_letter |-> "", answers_json |-> EmptyAnswers,
     phase |-> "auth", reply |-> None, mounted |-> TRUE]

\* handleApprove / handleSkip: the click only calls mutate(); the mutation
\* is pending from then on (isSaving disables the buttons).
StartTransition(s, req) ==
    /\ page[s] = "draft"
    /\ DraftRender(s) = "page"
    /\ ~isEditing[s]
    /\ ~isSaving(s)
    /\ Len(mut[s]) < MaxInFlight
    /\ Gesture
    /\ mut' = [mut EXCEPT ![s] = Append(@, req)]
    /\ UNCHANGED <<storeVars, page, matchId, isEditing, coverLetter, answers,
                   toast, hasSession, cache, unreachable, resumes,
                   preferences, onboardingStatus, onboardingFetch, statusVars,
                   savedCoverLetter>>

handleApprove(s) == StartTransition(s, ApproveRequest(s))

handleSkip(s) == StartTransition(s, SkipRequest(s))

\* Faulty variant of TransitionAllowed: no check of the current status.
TransitionAlwaysAllowed(m) == m \in DOMAIN status

\* Faulty variant of TransitionAllowed: a SKIPPED match is not refused.
TransitionAllowedAfterSkip(m) ==
    m \in DOMAIN status /\ status[m] \notin {"APPLIED", "SUBMITTED"}

\* The approve and skip edge functions: a terminal match is refused with
\* InvalidTransition (and a match the caller does not have, with NotFound).
TransitionAllowed(m) ==
    m \in DOMAIN status /\ status[m] \notin TerminalStatuses

Refusal(m) == IF m \in DOMAIN status THEN "InvalidTransition" ELSE "NotFound"

\* approve persists the final content in the draft of the match
\* (creating it when the match has none).
PersistFinalContent(m, cl, ans) ==
    IF DraftRowsFor(m) = {}
    THEN InsertDraft(m, cl, ans)
    ELSE [i \in 1..Len(drafts) |->
            IF drafts[i].job_match_id = m
            THEN [drafts[i] EXCEPT !.cover_letter = Some(cl),
                                   !.answers_json = Some(ans)]
            ELSE drafts[i]]

\* Faulty variant of ApproveCommit: the event is written but the status is not.
ApproveCommitEventOnly(r) ==
    /\ Len(events) < MaxEvents
    /\ drafts' = PersistFinalContent(r.matchId, r.cover_letter, r.answers_json)
    /\ events' = Append(events, [matchId |-> r.matchId,
                                 coverLetter |-> r.cover_letter,
                                 answersJson |-> r.answers_json])
    /\ UNCHANGED status

\* approve, as one transaction: content, submission event, status.
ApproveCommit(r) ==
    /\ Len(events) < MaxEvents
    /\ drafts' = PersistFinalContent(r.matchId, r.cover_letter, r.answers_json)
    /\ events' = Append(events, [matchId |-> r.matchId,
                                 coverLetter |-> r.cover_letter,
                                 answersJson |-> r.answers_json])
    /\ status' = [status EXCEPT ![r.matchId] = "APPLIED"]

\* skip: the status alone.
SkipCommit(r) ==
    /\ status' = [status EXCEPT ![r.matchId] = "SKIPPED"]
    /\ UNCHANGED <<drafts, events>>

\* navigate("/inbox") from a callback of the mutation at position i, the
\* cache of the session being c: on the inbox nothing is mounted anew; from
\* another route the component shown unmounts (a Draft component need not
\* be the one that started the mutation) and the Inbox component mounts.
NavigateToInbox(s, i, c) ==
    /\ IF page[s] = "inbox"
       THEN /\ cache' = [cache EXCEPT ![s] = c]
            /\ UNCHANGED <<page, compVars, onboardingStatus, onboardingFetch>>
       ELSE /\ LeaveDraft(s)
            /\ InboxMounts(s, c)
    /\ mut' = [mut EXCEPT ![s] = Unmounted(RemoveAt(@, i))]

\* approveMutation.onSuccess / skipMutation.onSuccess: invalidate the
\* job-matches query and the job-match query of the route the mutation was
\* started on, toast, navigate("/inbox").
TransitionSuccess(s, i, t) ==
    /\ toast' = [toast EXCEPT ![s] = t]
    /\ NavigateToInbox(s, i,
          InvalidateMatch(s, InvalidateList(s, cache[s]), mut[s][i].matchId))

\* approveMutation.onError / skipMutation.onError: toast with error.message
TransitionError(s, i, msg) ==
    /\ toast' = [toast EXCEPT ![s] = ErrorToast(msg)]
    /\ Settled(s, i)
    /\ UNCHANGED <<viewVars, onboardingStatus, onboardingFetch>>

\* Faulty variant of TransitionGetSession: the request is sent whether or
\* not there is a session.
TransitionGetSessionUnchecked(s) ==
    \E i \in DOMAIN mut[s] :
    /\ mut[s][i].phase = "auth"
    /\ mut' = [mut EXCEPT ![s][i].phase = "sent"]
    /\ UNCHANGED <<storeVars, page, matchId, isEditing, coverLetter, answers,
                   toast, hasSession, cache, unreachable, resumes,
                   preferences, onboardingStatus, onboardingFetch, statusVars,
                   savedCoverLetter, acts>>

\* approveMutation.mutationFn / skipMutation.mutationFn, first await:
\*   const { data: { session } } = await supabase.auth.getSession();
\*   if (!session) throw new Error("Not authenticated");
\* With a session the function is invoked next (the request is sent);
\* without one the mutation fails and onError shows error.message.
TransitionGetSession(s) ==
    \E i \in DOMAIN mut[s] :
    /\ mut[s][i].phase = "auth"
    /\ IF hasSession[s]
       THEN /\ mut' = [mut EXCEPT ![s][i].phase = "sent"]
            /\ UNCHANGED <<viewVars, toast, onboardingStatus, onboardingFetch>>
       ELSE TransitionError(s, i, "Not authenticated")
    /\ UNCHANGED <<storeVars, hasSession, unreachable, resumes, preferences,
                   statusVars, acts>>

\* The approve function handles a request that was sent: it commits, or
\* refuses; the answer is on its way.
ApproveHandled(s) ==
    \E i \in DOMAIN mut[s] :
    /\ mut[s][i].kind = "approve"
    /\ mut[s][i].phase = "sent"
    /\ mut[s][i].reply = None
    /\ IF TransitionAllowed(mut[s][i].matchId)
       THEN /\ ApproveCommit(mut[s][i])
            /\ mut' = [mut EXCEPT ![s][i].reply = Some("ok")]
       ELSE /\ UNCHANGED <<status, drafts, events>>
            /\ mut' = [mut EXCEPT ![s][i].reply =
                         Some(Refusal(mut[s][i].matchId))]
    /\ UNCHANGED <<fit_score, page, matchId, isEditing, coverLetter, answers,
                   toast, hasSession, cache, unreachable, resumes,
                   preferences, onboardingStatus, onboardingFetch, statusVars,
                   savedCoverLetter, acts>>

\* The skip function handles a request that was sent.
SkipHandled(s) ==
    \E i \in DOMAIN mut[s] :
    /\ mut[s][i].kind = "skip"
    /\ mut[s][i].phase = "sent"
    /\ mut[s][i].reply = None
    /\ IF TransitionAllowed(mut[s][i].matchId)
       THEN /\ SkipCommit(mut[s][i])
            /\ mut' = [mut EXCEPT ![s][i].reply = Some("ok")]
       ELSE /\ UNCHANGED <<status, drafts, events>>
            /\ mut' = [mut EXCEPT ![s][i].reply =
                         Some(Refusal(mut[s][i].matchId))]
    /\ UNCHANGED <<fit_score, page, matchId, isEditing, coverLetter, answers,
                   toast, hasSession, cache, unreachable, resumes,
                   preferences, onboardingStatus, onboardingFetch, statusVars,
                   savedCoverLetter, acts>>

\* The approve settles: the answer of the function arrives (onSuccess, or
\* onError with the refusal), or the request or its answer is lost
\* (RemoteUnavailable), whether or not the function has committed.
ApproveSettle(s) ==
    \E i \in DOMAIN mut[s] :
    /\ mut[s][i].kind = "approve"
    /\ mut[s][i].phase = "sent"
    /\ \/ /\ mut[s][i].reply = Some("ok")
          /\ TransitionSuccess(s, i, Toast("Application Approved!",
                "Your application has been marked as submitted."))
       \/ /\ mut[s][i].reply \notin {None, Some("ok")}
          /\ TransitionError(s, i, TheValue(mut[s][i].reply))
       \/ TransitionError(s, i, "RemoteUnavailable")
    /\ UNCHANGED <<storeVars, hasSession, unreachable, resumes, preferences,
                   statusVars, acts>>

SkipSettle(s) ==
    \E i \in DOMAIN mut[s] :
    /\ mut[s][i].kind = "skip"
    /\ mut[s][i].phase = "sent"
    /\ \/ /\ mut[s][i].reply = Some("ok")
          /\ TransitionSuccess(s, i, Toast("Job Skipped",
                "This job has been removed from your inbox."))
       \/ /\ mut[s][i].reply \notin {None, Some("ok")}
          /\ TransitionError(s, i, TheValue(mut[s][i].reply))
       \/ TransitionError(s, i, "RemoteUnavailable")
    /\ UNCHANGED <<storeVars, hasSession, unreachable, resumes, preferences,
                   statusVars, acts>>

\* ------------------------------------------------------------- onboarding
\* supabase.auth.getUser(): the user of the token its request carries, or
\* null when it carries none.
GetUser(bearer) == IF bearer THEN Some(TheUser) ELSE None

\* auth.uid() of a request, by the token it carries. Row-level security
\* shows a row of resumes or preferences to its owner only:
\*   USING (auth.uid() = user_id)
AuthUid(bearer) == IF bearer THEN Some(TheUser) ELSE None

\* .from("resumes").select("id").eq("user_id", user.id).limit(1): `data`
\* is the list of rows (at most one), or null when the read fails.
SelectResumes(bearer, u) ==
    IF "resumes" \in unreachable THEN None
    ELSE Some(IF u \in resumes /\ AuthUid(bearer) = Some(u)
              THEN <<[id |-> u]>> ELSE <<>>)

\* .from("preferences").select("roles").eq("user_id", user.id).limit(1)
SelectPreferences(bearer, u) ==
    IF "preferences" \in unreachable THEN None
    ELSE Some(IF preferences[u] # None /\ AuthUid(bearer) = Some(u)
              THEN <<TheValue(preferences[u])>> ELSE <<>>)

\* JS `x?.length ?? 0` for a nullable list
LengthOrZero(opt) == IF opt = None THEN 0 ELSE Len(TheValue(opt))

\* JS `prefsResult.data?.[0]?.roles?.length ?? 0`
FirstRolesLength(data) ==
    IF data = None THEN 0
    ELSE IF Len(TheValue(data)) = 0 THEN 0
    ELSE LengthOrZero(TheValue(data)[1].roles)

\* queryFn of the onboarding-status query, from the user and the `data` of
\* the two reads.
OnboardingStatus(user, resumeData, prefsData) ==
    IF user = None THEN [complete |-> FALSE, missing |-> <<"auth">>]
    ELSE LET hasResume == LengthOrZero(resumeData) > 0
             hasPreferences == /\ LengthOrZero(prefsData) > 0
                               /\ FirstRolesLength(prefsData) > 0
             missing == (IF ~hasResume THEN <<"resume">> ELSE <<>>)
                        \o (IF ~hasPreferences THEN <<"preferences">> ELSE <<>>)
         IN [complete |-> Len(missing) = 0, missing |-> missing]

\* queryFn of the onboarding-status query, first await: getUser() is
\* answered for the token its request was sent with:
\*   const { data: { user } } = await supabase.auth.getUser();
\*   if (!user) return { complete: false, missing: ["auth"] };
\* With a user the two reads are issued together (Promise.all); their
\* requests carry the token of the session there is now, if any.
OnboardingGetUser(s) ==
    /\ onboardingFetch[s].stage = "user"
    /\ LET user == GetUser(onboardingFetch[s].bearer) IN
       IF user = None
       THEN /\ onboardingStatus' = [onboardingStatus EXCEPT ![s] =
                    Some(OnboardingStatus(user, None, None))]
            /\ onboardingFetch' = [onboardingFetch EXCEPT ![s] = NotFetching]
       ELSE /\ onboardingFetch' = [onboardingFetch EXCEPT ![s] =
                    [NotFetching EXCEPT !.stage = "reads", !.user = user,
                                        !.bearer = hasSession[s]]]
            /\ UNCHANGED onboardingStatus
    /\ UNCHANGED <<storeVars, page, matchId, isEditing, coverLetter, answers,
                   mut, toast, hasSession, cache, unreachable, resumes,
                   preferences, statusVars, savedCoverLetter, acts>>

\* One of the two reads has been answered (f is the fetch with the answer
\* recorded); when both are in, Promise.all resolves and the queryFn returns.
OnboardingAnswered(s, f) ==
    IF f.resumeData # None /\ f.prefsData # None
    THEN /\ onboardingStatus' = [onboardingStatus EXCEPT ![s] =
                Some(OnboardingStatus(f.user, TheValue(f.resumeData),
                                      TheValue(f.prefsData)))]
         /\ onboardingFetch' = [onboardingFetch EXCEPT ![s] = NotFetching]
    ELSE /\ onboardingFetch' = [onboardingFetch EXCEPT ![s] = f]
         /\ UNCHANGED onboardingStatus

\* The store answers the read of resumes, for the token the request
\* carries.
OnboardingReadResumes(s) ==
    /\ onboardingFetch[s].stage = "reads"
    /\ onboardingFetch[s].resumeData = None
    /\ OnboardingAnswered(s, [onboardingFetch[s] EXCEPT !.resumeData =
            Some(SelectResumes(onboardingFetch[s].bearer,
                               TheValue(onboardingFetch[s].user)))])
    /\ UNCHANGED <<storeVars, page, matchId, isEditing, coverLetter, answers,
                   mut, toast, hasSession, cache, unreachable, resumes,
                   preferences, statusVars, savedCoverLetter, acts>>

\* The store answers the read of preferences.
OnboardingReadPreferences(s) ==
    /\ onboardingFetch[s].stage = "reads"
    /\ onboardingFetch[s].prefsData = None
    /\ OnboardingAnswered(s, [onboardingFetch[s] EXCEPT !.prefsData =
            Some(SelectPreferences(onboardingFetch[s].bearer,
                                   TheValue(onboardingFetch[s].user)))])
    /\ UNCHANGED <<storeVars, page, matchId, isEditing, coverLetter, answers,
                   mut, toast, hasSession, cache, unreachable, resumes,
                   preferences, statusVars, savedCoverLetter, acts>>

\* ---------------------------------------------------------- system status
\* The System Status page (src/src/pages/SystemStatus.tsx): four queries,
\* each with retry: false. A message is a sequence of text fragments.
Includes(msg, fragment) == \E i \in DOMAIN msg : msg[i] = fragment


\* A useQuery result: pending until the first fetch settles; an error keeps
\* the data of an earlier success.
Resolved(d) == [threw |-> FALSE, data |-> Some(d), error |-> None]
Rejected(msg) == [threw |-> TRUE, data |-> None, error |-> Some(msg)]
QueryAfter(prev, outcome) ==
    IF outcome.threw
    THEN [status |-> "error", data |-> prev.data, error |-> outcome.error,
          fetching |-> FALSE]
    ELSE [status |-> "success", data |-> outcome.data, error |-> None,
          fetching |-> FALSE]

\* A fetch of a query of the page starts unless one is in flight: a query
\* in error that has no data goes back to pending.
StatusFetchStarts(q) ==
    IF q.fetching THEN q
    ELSE [q EXCEPT !.fetching = TRUE,
                   !.status = IF q.data = None THEN "pending" ELSE @,
                   !.error = IF q.data = None THEN None ELSE @]

CheckData(latency, message) ==
    [ok |-> TRUE, latency |-> latency, message |-> message]

\* supabase.auth.getSession(): the session, or null.
UserEmail == "u1@example.com"
GetSession(s) ==
    IF hasSession[s] THEN Some([user |-> [email |-> UserEmail]]) ELSE None

\* What functions.invoke("run-daily") can do: return without error, return
\* an error (whose message may be missing), or throw.
TriggerMessages ==
    {<<"Onboarding incomplete">>,
     <<"run-daily failed: ", "MISSING_", "RESUME">>,
     <<"Edge Function returned a non-2xx status code">>}
TriggerOutcomes ==
    {[kind |-> "returns", error |-> None], [kind |-> "throws", error |-> None]}
    \cup {[kind |-> "returns", error |-> Some([message |-> m])] :
            m \in {None} \cup {Some(t) : t \in TriggerMessages}}

\* The failures that mean "profile incomplete".
ProfileIncomplete(o) ==
    /\ o.kind = "returns"
    /\ o.error # None
    /\ TheValue(o.error).message # None
    /\ \/ Includes(TheValue(TheValue(o.error).message), "Onboarding incomplete")
       \/ Includes(TheValue(TheValue(o.error).message), "MISSING_")

\* queryFn of supabaseCheck: select from job_posts, timed.
SupabaseQueryFn(latency) ==
    IF "job_posts" \in unreachable
    THEN Rejected(<<"Failed to fetch">>)
    ELSE Resolved(CheckData(Some(latency), None))

\* queryFn of envCheck: if (!url || !key) throw
EnvQueryFn ==
    IF EnvVarNames \subseteq envVars
    THEN Resolved(CheckData(None, None))
    ELSE Rejected(<<"Missing Supabase environment variables">>)

\* Faulty variant of KeywordsQueryFn: a failure of the trigger that does not
\* mean "profile incomplete" is thrown.
KeywordsQueryFnStrict(session, o) ==
    IF session = None
    THEN Resolved(CheckData(None, Some(<<"Login required for full check">>)))
    ELSE IF o.kind = "throws"
    THEN Resolved(CheckData(None, Some(<<"Edge function deployed">>)))
    ELSE IF ProfileIncomplete(o)
    THEN Resolved(CheckData(None, Some(<<"Edge function reachable">>)))
    ELSE IF o.error # None
    THEN Rejected(<<"run-daily failed">>)
    ELSE Resolved(CheckData(None, None))

\* queryFn of keywordsCheck, from the session and from what the invocation
\* of run-daily does (o is not looked at without a session).
KeywordsQueryFn(session, o) ==
    IF session = None
    THEN Resolved(CheckData(None, Some(<<"Login required for full check">>)))
    ELSE IF o.kind = "throws"
    THEN Resolved(CheckData(None, Some(<<"Edge function deployed">>)))
    ELSE IF ProfileIncomplete(o)
    THEN Resolved(CheckData(None, Some(<<"Edge function reachable">>)))
    ELSE Resolved(CheckData(None, None))

\* queryFn of authCheck
AuthQueryFn(session) ==
    Resolved(CheckData(None, Some(
        IF session # None
        THEN <<"Logged in as ", TheValue(session).user.email>>
        ELSE <<"Not logged in">>)))

supabaseCheck(s) == statusQuery[s]["system-status-supabase"]
envCheck(s) == statusQuery[s]["system-status-env"]
keywordsCheck(s) == statusQuery[s]["system-status-keywords"]
authCheck(s) == statusQuery[s]["system-status-auth"]

\* q.isLoading ? "checking" : q.isError ? "error" : "ok"
CheckStatus(q) ==
    IF q.fetching /\ q.status = "pending" THEN "checking"
    ELSE IF q.status = "error" THEN "error"
    ELSE "ok"

\* `data?.message` of a query result
DataMessage(q) == IF q.data = None THEN None ELSE TheValue(q.data).message

\* const checks: StatusCheck[]
checks(s) ==
    <<[name |-> "Supabase Database",
       status |-> CheckStatus(supabaseCheck(s)),
       message |-> IF supabaseCheck(s).status = "error"
                   THEN supabaseCheck(s).error
                   ELSE IF supabaseCheck(s).data # None
                   THEN Some(<<"Connected (",
                        ToString(TheValue(TheValue(supabaseCheck(s).data).latency)),
                        "ms)">>)
                   ELSE None],
      [name |-> "Environment Variables",
       status |-> CheckStatus(envCheck(s)),
       message |-> IF envCheck(s).status = "error"
                   THEN envCheck(s).error
                   ELSE Some(<<"All required vars set">>)],
      [name |-> "Authentication",
       status |-> CheckStatus(authCheck(s)),
       message |-> DataMessage(authCheck(s))],
      [name |-> "AI Gateway (Keywords AI)",
       status |-> CheckStatus(keywordsCheck(s)),
       message |-> IF keywordsCheck(s).status = "error"
                   THEN keywordsCheck(s).error
                   ELSE IF DataMessage(keywordsCheck(s)) # None
                   THEN DataMessage(keywordsCheck(s))
                   ELSE Some(<<"Ready">>)]>>

allOk(s) == \A i \in DOMAIN checks(s) : checks(s)[i].status = "ok"
anyError(s) == \E i \in DOMAIN checks(s) : checks(s)[i].status = "error"

\* Faulty variant of Headline: the checks still loading are not looked at.
HeadlineIgnoresLoading(s) ==
    IF anyError(s) THEN "Some systems need attention"
    ELSE "All systems operational"

\* The overall status line.
Headline(s) ==
    IF \E i \in DOMAIN checks(s) : checks(s)[i].status = "checking"
    THEN "Checking system status..."
    ELSE IF anyError(s) THEN "Some systems need attention"
    ELSE "All systems operational"

\* A query of the page settles.
StatusQuerySettles(s, key, outcome) ==
    statusQuery' = [statusQuery EXCEPT ![s][key] = QueryAfter(@, outcome)]

\* The fetch of supabaseCheck that is in flight is answered.
SupabaseCheck(s) ==
    /\ statusQuery[s]["system-status-supabase"].fetching
    /\ \E latency \in Latencies :
          StatusQuerySettles(s, "system-status-supabase",
                             SupabaseQueryFn(latency))
    /\ UNCHANGED <<storeVars, page, matchId, isEditing, coverLetter, answers,
                   mut, toast, hasSession, cache, unreachable, resumes,
                   preferences, onboardingStatus, onboardingFetch,
                   keywordsFetch, envVars, runDaily, savedCoverLetter, acts>>

EnvCheck(s) ==
    /\ statusQuery[s]["system-status-env"].fetching
    /\ StatusQuerySettles(s, "system-status-env", EnvQueryFn)
    /\ UNCHANGED <<storeVars, page, matchId, isEditing, coverLetter, answers,
                   mut, toast, hasSession, cache, unreachable, resumes,
                   preferences, onboardingStatus, onboardingFetch,
                   keywordsFetch, envVars, runDaily, savedCoverLetter, acts>>

\* queryFn of keywordsCheck, first await:
\*   const { data: { session } } = await supabase.auth.getSession();
\*   if (!session) return { ok: true, message: "Login required for full check" };
\* With a session run-daily is invoked next.
KeywordsGetSession(s) ==
    /\ statusQuery[s]["system-status-keywords"].fetching
    /\ keywordsFetch[s] = None
    /\ IF GetSession(s) = None
       THEN /\ StatusQuerySettles(s, "system-status-keywords",
                   KeywordsQueryFn(None, [kind |-> "returns", error |-> None]))
            /\ UNCHANGED keywordsFetch
       ELSE /\ keywordsFetch' = [keywordsFetch EXCEPT ![s] = GetSession(s)]
            /\ UNCHANGED statusQuery
    /\ UNCHANGED <<storeVars, page, matchId, isEditing, coverLetter, answers,
                   mut, toast, hasSession, cache, unreachable, resumes,
                   preferences, onboardingStatus, onboardingFetch, envVars,
                   runDaily, savedCoverLetter, acts>>

\* queryFn of keywordsCheck, second await: run-daily is invoked, and the
\* query settles on whatever comes of it.
KeywordsInvoke(s) ==
    /\ keywordsFetch[s] # None
    /\ \E o \in TriggerOutcomes :
         /\ StatusQuerySettles(s, "system-status-keywords",
                KeywordsQueryFn(keywordsFetch[s], o))
         /\ runDaily' = Append(runDaily, o)
    /\ keywordsFetch' = [keywordsFetch EXCEPT ![s] = None]
    /\ UNCHANGED <<storeVars, page, matchId, isEditing, coverLetter, answers,
                   mut, toast, hasSession, cache, unreachable, resumes,
                   preferences, onboardingStatus, onboardingFetch, envVars,
                   savedCoverLetter, acts>>

AuthCheck(s) ==
    /\ statusQuery[s]["system-status-auth"].fetching
    /\ StatusQuerySettles(s, "system-status-auth", AuthQueryFn(GetSession(s)))
    /\ UNCHANGED <<storeVars, page, matchId, isEditing, coverLetter, answers,
                   mut, toast, hasSession, cache, unreachable, resumes,
                   preferences, onboardingStatus, onboardingFetch,
                   keywordsFetch, envVars, runDaily, savedCoverLetter, acts>>

\* The window gets the focus again: every query the mounted page observes
\* is stale and is fetched again, unless a fetch of it is in flight.
WindowFocus(s) ==
    /\ page[s] \in {"inbox", "draft", "status"}
    /\ Gesture
    /\ IF page[s] = "inbox"
       THEN /\ ~cache[s].list.fetching \/ onboardingFetch[s].stage = "idle"
            /\ cache' = [cache EXCEPT ![s].list = StartFetch(@)]
            /\ OnboardingFetchStarts(s)
            /\ UNCHANGED statusQuery
       ELSE IF page[s] = "draft"
       THEN /\ ~matchQuery(s).fetching \/ ~draftQuery(s).fetching
            /\ cache' = [cache EXCEPT
                           ![s].match[matchId[s]] = StartFetch(@),
                           ![s].draft[matchId[s]] = StartFetch(@)]
            /\ UNCHANGED <<onboardingFetch, statusQuery>>
       ELSE /\ \E k \in StatusKeys : ~statusQuery[s][k].fetching
            /\ statusQuery' = [statusQuery EXCEPT ![s] =
                                 [k \in StatusKeys |->
                                    StatusFetchStarts(@[k])]]
            /\ UNCHANGED <<cache, onboardingFetch>>
    /\ UNCHANGED <<storeVars, page, matchId, isEditing, coverLetter, answers,
                   mut, toast, hasSession, unreachable, resumes, preferences,
                   onboardingStatus, keywordsFetch, envVars, runDaily,
                   savedCoverLetter>>

\* ---------------------------------------------------------- specification
Next ==
    \/ \E m \in Matches : PipelineDraft(m)
    \/ \E s \in Sessions, m \in CacheKeys : OpenDraft(s, m)
    \/ \E s \in Sessions : BackToInbox(s)
    \/ \E s \in Sessions : ClickCheckRoles(s)
    \/ \E s \in Sessions : ClickCompleteSetup(s)
    \/ \E s \in Sessions : BrowserBack(s)
    \/ \E s \in Sessions : SessionEnds(s)
    \/ \E s \in Sessions : WindowFocus(s)
    \/ \E s \in Sessions : JobMatchesRead(s)
    \/ \E s \in Sessions : InboxQuery(s)
    \/ \E s \in Sessions : OnboardingGetUser(s)
    \/ \E s \in Sessions : OnboardingReadResumes(s)
    \/ \E s \in Sessions : OnboardingReadPreferences(s)
    \/ \E s \in Sessions : JobMatchRead(s)
    \/ \E s \in Sessions : MatchQuery(s)
    \/ \E s \in Sessions : ApplicationDraftRead(s)
    \/ \E s \in Sessions : DraftQuery(s)
    \/ \E s \in Sessions : ClickEdit(s)
    \/ \E s \in Sessions : ClickCancel(s)
    \/ \E s \in Sessions, t \in UserTexts : TypeCoverLetter(s, t)
    \/ \E s \in Sessions, q \in Questions, t \in UserTexts : TypeAnswer(s, q, t)
    \/ \E s \in Sessions : handleSave(s)
    \/ \E s \in Sessions : SaveHandled(s)
    \/ \E s \in Sessions : SaveSettle(s)
    \/ \E s \in Sessions : handleApprove(s)
    \/ \E s \in Sessions : TransitionGetSession(s)
    \/ \E s \in Sessions : ApproveHandled(s)
    \/ \E s \in Sessions : ApproveSettle(s)
    \/ \E s \in Sessions : handleSkip(s)
    \/ \E s \in Sessions : SkipHandled(s)
    \/ \E s \in Sessions : SkipSettle(s)

Spec == Init /\ [][Next]_vars

\* One session alone that has just opened the inbox or the Draft page of a
\* match; the pipeline has written the draft of the NEEDS_REVIEW match and
\* not yet that of the other.
InitSingle ==
    /\ status = [m \in Matches |-> IF m = 1 THEN "DRAFTED" ELSE "NEEDS_REVIEW"]
    /\ fit_score = [m \in Matches |-> IF m = 1 THEN Some(90) ELSE None]
    /\ drafts = <<[job_match_id |-> 2,
                   cover_letter |-> None,
                   answers_json |-> None,
                   tailoring_notes |-> Some([issues |-> <<"issue">>])]>>
    /\ events = <<>>
    /\ OnboardedProfile
    /\ StatusNotOpened
    /\ unreachable = {}
    /\ InitViews({"s1"}, Routes)
    /\ acts = MaxActsSingle

SpecSingle == InitSingle /\ [][Next]_vars

\* One session alone that has opened the Draft page of a match, clicked
\* Edit and typed a cover letter; the job-match query has delivered the
\* match, the application-draft query has delivered what the store holds
\* of the draft or is still in flight.
InitEdit ==
    /\ status = [m \in Matches |-> IF m = 1 THEN "DRAFTED" ELSE "NEEDS_REVIEW"]
    /\ fit_score = [m \in Matches |-> IF m = 1 THEN Some(90) ELSE None]
    /\ drafts = <<[job_match_id |-> 2,
                   cover_letter |-> None,
                   answers_json |-> None,
                   tailoring_notes |-> Some([issues |-> <<"issue">>])]>>
    /\ events = <<>>
    /\ OnboardedProfile
    /\ StatusNotOpened
    /\ unreachable = {}
    /\ \E m \in Matches :
          /\ matchId = [s \in Sessions |-> IF s = "s1" THEN m ELSE 0]
          /\ \E d \in {StartFetch(NoQuery), Succeeded(SelectDraft(m))} :
                cache = [s \in Sessions |->
                           IF s = "s1"
                           THEN [EmptyCache EXCEPT
                                   !.match[m] = Succeeded(SelectMatch(m)),
                                   !.draft[m] = d]
                           ELSE EmptyCache]
    /\ page = [s \in Sessions |-> IF s = "s1" THEN "draft" ELSE "closed"]
    /\ isEditing = [s \in Sessions |-> s = "s1"]
    /\ coverLetter = [s \in Sessions |-> IF s = "s1" THEN "a" ELSE ""]
    /\ answers = [s \in Sessions |-> EmptyAnswers]
    /\ onboardingStatus = [s \in Sessions |-> None]
    /\ onboardingFetch = [s \in Sessions |-> NotFetching]
    /\ savedCoverLetter = [s \in Sessions |-> None]
    /\ mut = [s \in Sessions |-> <<>>]
    /\ toast = [s \in Sessions |-> NoToast]
    /\ hasSession = [s \in Sessions |-> TRUE]
    /\ acts = MaxActsEdit

SpecEdit == InitEdit /\ [][Next]_vars

\* The job-matches query alone, over every store of NumListMatches matches.
InitList ==
    /\ status \in [ListMatches -> {"DRAFTED", "SKIPPED"}]
    /\ fit_score \in [ListMatches -> {None} \cup {Some(n) : n \in FitScores}]
    /\ drafts = <<>>
    /\ events = <<>>
    /\ OnboardedProfile
    /\ StatusNotOpened
    /\ unreachable = {}
    /\ InitViews({"s1"}, {0})
    /\ acts = 0

NextList ==
    \/ \E s \in Sessions : JobMatchesRead(s)
    \/ \E s \in Sessions : InboxQuery(s)

SpecList == InitList /\ [][NextList]_vars

\* The onboarding check alone, over every content of the resumes and
\* preferences tables for two users, with each of the two reads working or
\* failing; the session can end while the check runs.
InitOnboarding ==
    /\ status = [m \in Matches |-> IF m = 1 THEN "DRAFTED" ELSE "NEEDS_REVIEW"]
    /\ fit_score = [m \in Matches |-> IF m = 1 THEN Some(90) ELSE None]
    /\ drafts = <<>>
    /\ events = <<>>
    /\ resumes \in SUBSET Users
    /\ preferences \in [Users -> {None} \cup {Some(r) : r \in PreferencesRows}]
    /\ unreachable \in SUBSET GateTables
    /\ StatusNotOpened
    /\ InitViews({"s1"}, {0})
    /\ acts = MaxActsOnboarding

NextOnboarding ==
    \/ \E s \in Sessions : OnboardingGetUser(s)
    \/ \E s \in Sessions : OnboardingReadResumes(s)
    \/ \E s \in Sessions : OnboardingReadPreferences(s)
    \/ \E s \in Sessions : SessionEnds(s)
    \/ \E s \in Sessions : WindowFocus(s)

SpecOnboarding == InitOnboarding /\ [][NextOnboarding]_vars

\* One session opening the inbox or a /draft/:matchId route, the route of
\* a match the user does not have included, with the reads of the two
\* pages working or one of them failing.
InitLoad ==
    /\ status = [m \in Matches |-> IF m = 1 THEN "DRAFTED" ELSE "NEEDS_REVIEW"]
    /\ fit_score = [m \in Matches |-> IF m = 1 THEN Some(90) ELSE None]
    /\ drafts = <<[job_match_id |-> 2,
                   cover_letter |-> None,
                   answers_json |-> None,
                   tailoring_notes |-> Some([issues |-> <<"issue">>])]>>
    /\ events = <<>>
    /\ OnboardedProfile
    /\ StatusNotOpened
    /\ unreachable \in {{}} \cup {{k} : k \in QueryKeys}
    /\ InitViews({"s1"}, Routes \cup {NoSuchMatch})
    /\ acts = MaxActsLoad

SpecLoad == InitLoad /\ [][Next]_vars

\* Two sessions that have both opened /draft/1, loaded the draft the
\* pipeline wrote for match 1, clicked Edit and typed a cover letter each.
InitRace ==
    /\ status = [m \in Matches |-> IF m = 1 THEN "DRAFTED" ELSE "NEEDS_REVIEW"]
    /\ fit_score = [m \in Matches |-> IF m = 1 THEN Some(90) ELSE None]
    /\ drafts = <<[job_match_id |-> 1,
                   cover_letter |-> Some(GeneratedText),
                   answers_json |-> Some([q \in Questions |-> GeneratedText]),
                   tailoring_notes |-> Some([issues |-> <<>>])]>>
    /\ events = <<>>
    /\ OnboardedProfile
    /\ StatusNotOpened
    /\ unreachable = {}
    /\ page = [s \in Sessions |-> "draft"]
    /\ matchId = [s \in Sessions |-> 1]
    /\ isEditing = [s \in Sessions |-> TRUE]
    /\ coverLetter = [s \in Sessions |-> IF s = "s1" THEN "a" ELSE "b"]
    /\ answers = [s \in Sessions |-> [q \in Questions |-> GeneratedText]]
    /\ cache = [s \in Sessions |->
                  [EmptyCache EXCEPT !.match[1] = Succeeded(SelectMatch(1)),
                                     !.draft[1] = Succeeded(RowData(1))]]
    /\ onboardingStatus = [s \in Sessions |-> None]
    /\ onboardingFetch = [s \in Sessions |-> NotFetching]
    /\ savedCoverLetter = [s \in Sessions |-> None]
    /\ mut = [s \in Sessions |-> <<>>]
    /\ toast = [s \in Sessions |-> NoToast]
    /\ hasSession = [s \in Sessions |-> TRUE]
    /\ acts = MaxActsRace

SpecRace == InitRace /\ [][Next]_vars

\* One session that has just opened the System Status page, with the
\* job_posts read working or failing and each of the two variables set or
\* not; the session can end and the queries can be fetched again.
InitStatus ==
    /\ status = [m \in Matches |-> IF m = 1 THEN "DRAFTED" ELSE "NEEDS_REVIEW"]
    /\ fit_score = [m \in Matches |-> IF m = 1 THEN Some(90) ELSE None]
    /\ drafts = <<>>
    /\ events = <<>>
    /\ OnboardedProfile
    /\ unreachable \in SUBSET {"job_posts"}
    /\ statusQuery = [s \in Sessions |->
                        [k \in StatusKeys |->
                           IF s = "s1" THEN StatusFetchStarts(PendingQuery)
                           ELSE PendingQuery]]
    /\ keywordsFetch = [s \in Sessions |-> None]
    /\ envVars \in SUBSET EnvVarNames
    /\ runDaily = <<>>
    /\ page = [s \in Sessions |-> IF s = "s1" THEN "status" ELSE "closed"]
    /\ matchId = [s \in Sessions |-> 0]
    /\ isEditing = [s \in Sessions |-> FALSE]
    /\ coverLetter = [s \in Sessions |-> ""]
    /\ answers = [s \in Sessions |-> EmptyAnswers]
    /\ cache = [s \in Sessions |-> EmptyCache]
    /\ onboardingStatus = [s \in Sessions |-> None]
    /\ onboardingFetch = [s \in Sessions |-> NotFetching]
    /\ savedCoverLetter = [s \in Sessions |-> None]
    /\ mut = [s \in Sessions |-> <<>>]
    /\ toast = [s \in Sessions |-> NoToast]
    /\ \E b \in BOOLEAN :
          hasSession = [s \in Sessions |-> IF s = "s1" THEN b ELSE TRUE]
    /\ acts = MaxActsStatus

NextStatus ==
    \/ \E s \in Sessions : SupabaseCheck(s)
    \/ \E s \in Sessions : EnvCheck(s)
    \/ \E s \in Sessions : KeywordsGetSession(s)
    \/ \E s \in Sessions : KeywordsInvoke(s)
    \/ \E s \in Sessions : AuthCheck(s)
    \/ \E s \in Sessions : SessionEnds(s)
    \/ \E s \in Sessions : WindowFocus(s)

SpecStatus == InitStatus /\ [][NextStatus]_vars


\* ------------------------------------------------------------------ claims
Range(seq) == {seq[i] : i \in 1..Len(seq)}
EventsFor(m) == {i \in 1..Len(events) : events[i].matchId = m}
Holds(row, cl, ans) ==
    row.cover_letter = Some(cl) /\ row.answers_json = Some(ans)

\* A step in which the mutation at position i of session s settles: it is
\* in flight before the step and not after it, the others still are.
SettlesAt(s, i) ==
    /\ i \in DOMAIN mut[s]
    /\ Unmounted(mut'[s]) = RemoveAt(Unmounted(mut[s]), i)
Settles(s, i, kind) == SettlesAt(s, i) /\ mut[s][i].kind = kind

\* A step in which the store, or the edge function, handles the request of
\* the mutation at position i of session s: the request had no answer
\* before the step and has one after it.
Handled(s, i) ==
    /\ i \in DOMAIN mut[s]
    /\ Len(mut'[s]) = Len(mut[s])
    /\ mut[s][i].reply = None
    /\ mut'[s][i].reply # None
HandledOf(s, i, kind) == Handled(s, i) /\ mut[s][i].kind = kind

\* A step in which session s starts a mutation of that kind.
Starts(s, kind) ==
    /\ Len(mut'[s]) = Len(mut[s]) + 1
    /\ mut'[s][Len(mut'[s])].kind = kind

\* C1: a saveEdit, approve or skip that reaches the store while the match is
\* APPLIED, SUBMITTED or SKIPPED is answered with the InvalidTransition
\* error and leaves the stored match, drafts and events as they were, and
\* a mutation answered with an error ends with the error notification.
C1_TerminalMutationsFail ==
    [][\A s \in Sessions : \A i \in DOMAIN mut[s] :
         /\ (/\ Handled(s, i)
             /\ mut[s][i].matchId \in DOMAIN status
             /\ status[mut[s][i].matchId] \in TerminalStatuses)
            => /\ mut'[s][i].reply = Some("InvalidTransition")
               /\ UNCHANGED <<status, drafts, events>>
         /\ (/\ SettlesAt(s, i)
             /\ mut[s][i].reply \notin {None, Some("ok")})
            => toast'[s].variant = "destructive"]_vars

\* C2: no match ever has more than one submission event, whatever attempts
\* failed and were retried.
C2_AtMostOneSubmissionEvent ==
    \A m \in DOMAIN status : Cardinality(EventsFor(m)) <= 1

\* C2 witness: an approve is in flight again for a match that an earlier
\* attempt, reported to this view as failed, has already applied.
C2_Witness ==
    \E s \in Sessions : \E i \in DOMAIN mut[s] :
        /\ mut[s][i].kind = "approve"
        /\ mut[s][i].phase = "sent"
        /\ toast[s] = ErrorToast("RemoteUnavailable")
        /\ status[mut[s][i].matchId] = "APPLIED"
        /\ Cardinality(EventsFor(mut[s][i].matchId)) = 1

\* C3: when an approve returns, with success or with an error, either the
\* match has a submission event and is APPLIED/SUBMITTED, or it has none and
\* its status is what it was; and when the approve function handles the
\* request, it records the event and flips the status in one step or does
\* neither.
C3_ApproveAtomic ==
    [][\A s \in Sessions : \A k \in DOMAIN mut[s] :
         /\ Settles(s, k, "approve") =>
               LET m == mut[s][k].matchId IN
               \/ /\ \E i \in 1..Len(events') : events'[i].matchId = m
                  /\ status'[m] \in {"APPLIED", "SUBMITTED"}
               \/ /\ \A i \in 1..Len(events') : events'[i].matchId # m
                  /\ m \in DOMAIN status => status'[m] = status[m]
         /\ HandledOf(s, k, "approve") =>
               LET m == mut[s][k].matchId IN
               \/ /\ m \in DOMAIN status
                  /\ Len(events') = Len(events) + 1
                  /\ events'[Len(events')].matchId = m
                  /\ status[m] \in ActionableStatuses
                  /\ status'[m] \in {"APPLIED", "SUBMITTED"}
               \/ UNCHANGED <<status, events>>]_vars

\* C3 witness: an approve has returned an error to a view still on the
\* draft page although the event is recorded and the status has flipped.
C3_Witness ==
    \E s \in Sessions :
        /\ page[s] = "draft"
        /\ mut[s] = <<>>
        /\ toast[s] = ErrorToast("RemoteUnavailable")
        /\ matchId[s] \in DOMAIN status
        /\ status[matchId[s]] = "APPLIED"
        /\ EventsFor(matchId[s]) # {}

\* C4: when a saveEdit reaches the store for a match that already has a row
\* holding exactly the content being saved (the earlier, identical call),
\* the match is left with exactly one draft row, holding that content.
C4_SaveIdempotent ==
    [][\A s \in Sessions : \A k \in DOMAIN mut[s] :
         (/\ HandledOf(s, k, "save")
          /\ \E i \in DraftRowsFor(mut[s][k].matchId) :
                Holds(drafts[i], mut[s][k].cover_letter,
                      mut[s][k].answers_json))
         => LET after == {i \in 1..Len(drafts') :
                            drafts'[i].job_match_id = mut[s][k].matchId} IN
            /\ Cardinality(after) = 1
            /\ \A i \in after :
                 Holds(drafts'[i], mut[s][k].cover_letter,
                       mut[s][k].answers_json)]_vars

\* C5: every match has at most one application_drafts row.
C5_AtMostOneDraftPerMatch ==
    \A m \in DOMAIN status : Cardinality(DraftRowsFor(m)) <= 1

\* C6: when an approve takes a DRAFTED match to APPLIED for a view whose
\* latest saveEdit succeeded and was followed by no further typing, the
\* stored cover letter of the match is the saved text, and the match has
\* exactly one submission event.
C6_SaveThenApprove ==
    [][\A s \in Sessions : \A k \in DOMAIN mut[s] :
         (/\ HandledOf(s, k, "approve")
          /\ mut[s][k].mounted
          /\ savedCoverLetter[s] # None
          /\ mut[s][k].matchId \in DOMAIN status
          /\ status[mut[s][k].matchId] = "DRAFTED"
          /\ status'[mut[s][k].matchId] # "DRAFTED")
         => LET m == mut[s][k].matchId
                after == {i \in 1..Len(drafts') : drafts'[i].job_match_id = m}
            IN
            /\ status'[m] = "APPLIED"
            /\ after # {}
            /\ \A i \in after : drafts'[i].cover_letter = savedCoverLetter[s]
            /\ Cardinality({i \in 1..Len(events') : events'[i].matchId = m}) = 1]_vars

\* The mutations of session s that are in flight before and after the
\* step keep their match id, cover letter and answers.
BodiesKept(s) ==
    Len(mut'[s]) = Len(mut[s]) =>
        \A i \in DOMAIN mut[s] :
            /\ mut'[s][i].kind = mut[s][i].kind
            /\ mut'[s][i].matchId = mut[s][i].matchId
            /\ mut'[s][i].cover_letter = mut[s][i].cover_letter
            /\ mut'[s][i].answers_json = mut[s][i].answers_json

\* C7: the approve request carries the view's cover letter and answers
\* (and its match id) as they are at the click, whether or not they were
\* saved, and carries them unchanged until it settles.
C7_ApproveCarriesWorkingCopy ==
    [][\A s \in Sessions :
         /\ Starts(s, "approve")
              => /\ mut'[s][Len(mut'[s])].matchId = matchId[s]
                 /\ mut'[s][Len(mut'[s])].cover_letter = coverLetter[s]
                 /\ mut'[s][Len(mut'[s])].answers_json = answers[s]
         /\ BodiesKept(s)]_vars

\* C7 witness: an approve is in flight with a cover letter the user typed
\* and never saved: it differs from the fetched draft and from the store.
C7_Witness ==
    \E s \in Sessions : \E k \in DOMAIN mut[s] :
        /\ mut[s][k].kind = "approve"
        /\ mut[s][k].phase = "sent"
        /\ mut[s][k].mounted
        /\ draft[s].st = "row"
        /\ mut[s][k].cover_letter \in UserTexts
        /\ mut[s][k].cover_letter # CoverLetterOrEmpty(draft[s].cover_letter)
        /\ \A i \in DraftRowsFor(mut[s][k].matchId) :
              drafts[i].cover_letter # Some(mut[s][k].cover_letter)

\* C8: every list the query returns has the non-null scores first, in
\* descending order, the null scores last, and equal scores (and the nulls)
\* in creation order.
ClaimedBefore(a, b) ==
    \/ fit_score[a] # None /\ fit_score[b] = None
    \/ /\ fit_score[a] # None
       /\ fit_score[b] # None
       /\ TheValue(fit_score[a]) > TheValue(fit_score[b])
    \/ fit_score[a] = fit_score[b] /\ a < b

C8_ListOrder ==
    \A s \in Sessions :
        matches[s] # None =>
            LET seq == TheValue(matches[s]) IN
            \A i, j \in 1..Len(seq) : i < j => ~ClaimedBefore(seq[j], seq[i])

\* A step in which the store reads the list for the fetch of the
\* job-matches query of session s, and a step in which the answer of the
\* fetch arrives with a list.
ListReadByStore(s) ==
    /\ cache[s].list.reply = None
    /\ cache'[s].list.reply # None
ListRead(s) ==
    /\ cache[s].list.fetching
    /\ ~cache'[s].list.fetching
    /\ ~cache'[s].list.error

\* C9 as stated: a list just loaded holds exactly the matches whose stored
\* status is DRAFTED or NEEDS_REVIEW, each once.
C9_FreshListIsActionable ==
    [][\A s \in Sessions :
         ListRead(s) =>
            LET seq == TheValue(matches'[s]) IN
            /\ Range(seq) = {m \in DOMAIN status' :
                               status'[m] \in ActionableStatuses}
            /\ Len(seq) = Cardinality(Range(seq))]_vars

\* C9 amended: the list the store reads for the query holds exactly the
\* matches whose stored status is DRAFTED or NEEDS_REVIEW at the read, each
\* once; the list that is loaded is the list that was read, whatever has
\* become of the statuses since.
C9_ListIsActionableWhenRead ==
    [][\A s \in Sessions :
         /\ ListReadByStore(s) =>
               LET r == TheValue(cache'[s].list.reply) IN
               ~r.error =>
                  LET seq == TheValue(r.data) IN
                  /\ Range(seq) = {m \in DOMAIN status :
                                     status[m] \in ActionableStatuses}
                  /\ Len(seq) = Cardinality(Range(seq))
                  /\ status' = status
         /\ ListRead(s) =>
               /\ cache[s].list.reply # None
               /\ matches'[s] = TheValue(cache[s].list.reply).data]_vars

\* C9 witness: a list loaded after a match became terminal shows the other
\* match and not the terminal one.
C9_Witness ==
    \E s \in Sessions :
        /\ matches[s] # None
        /\ ~cache[s].list.fetching
        /\ ~cache[s].list.error
        /\ \E m \in DOMAIN status :
              /\ status[m] \in TerminalStatuses
              /\ m \notin Range(TheValue(matches[s]))
        /\ Range(TheValue(matches[s])) # {}

\* A step in which the skip at position i of session s succeeds.
SkipSucceeds(s, i) == Settles(s, i, "skip") /\ toast'[s].title = "Job Skipped"

\* C10: a skip that reaches the skip function for a NEEDS_REVIEW match
\* leaves it SKIPPED, and once the skip has succeeded, the list the inbox
\* shows to that session does not contain the skipped match.
C10_SkippedNotShown ==
    [][\A s \in Sessions : \A i \in DOMAIN mut[s] :
         /\ (/\ HandledOf(s, i, "skip")
             /\ mut[s][i].matchId \in DOMAIN status
             /\ status[mut[s][i].matchId] = "NEEDS_REVIEW")
            => status'[mut[s][i].matchId] = "SKIPPED"
         /\ SkipSucceeds(s, i)
            => /\ status'[mut[s][i].matchId] = "SKIPPED"
               /\ (page'[s] = "inbox" /\ matches'[s] # None)
                     => mut[s][i].matchId
                           \notin Range(TheValue(matches'[s]))]_vars

\* What the user has on file, read from the tables.
HasResumeOnFile == TheUser \in resumes
HasRolesOnFile ==
    /\ preferences[TheUser] # None
    /\ TheValue(preferences[TheUser]).roles # None
    /\ Len(TheValue(TheValue(preferences[TheUser]).roles)) >= 1

\* C11: when the onboarding check of a user is answered by the store, it
\* reports complete iff the user has a resume on file and a preferences row
\* with at least one role; and missing lists "resume" when there is no
\* resume, then "preferences" when the row is absent or has no role.
C11_OnboardingGate ==
    [][\A s \in Sessions :
         (/\ onboardingFetch[s].stage = "reads"
          /\ onboardingFetch'[s].stage = "idle")
         => onboardingStatus'[s] = Some(
              [complete |-> HasResumeOnFile /\ HasRolesOnFile,
               missing |-> (IF HasResumeOnFile THEN <<>> ELSE <<"resume">>)
                           \o (IF HasRolesOnFile THEN <<>>
                               ELSE <<"preferences">>)])]_vars

\* C12: a saveEdit leaves the stored status of its match, and of every
\* other match, as it was, when the store applies it and when it settles,
\* with success or with an error.
C12_SaveKeepsStatus ==
    [][\A s \in Sessions : \A i \in DOMAIN mut[s] :
         /\ HandledOf(s, i, "save") => status' = status
         /\ Settles(s, i, "save") => status' = status]_vars

\* C12 witness: a save of the NEEDS_REVIEW match has succeeded, its content
\* is stored, and the match is still NEEDS_REVIEW.
C12_Witness ==
    \E s \in Sessions :
        /\ page[s] = "draft"
        /\ toast[s].title = "Draft saved"
        /\ matchId[s] \in DOMAIN status
        /\ status[matchId[s]] = "NEEDS_REVIEW"
        /\ \E i \in DraftRowsFor(matchId[s]) :
              Holds(drafts[i], coverLetter[s], answers[s])

\* A step in which the getSession() awaited by the approve or skip at
\* position i of session s is answered: the mutation fails, or its request
\* is sent.
SessionAnswered(s, i) ==
    /\ i \in DOMAIN mut[s]
    /\ mut[s][i].phase = "auth"
    /\ \/ SettlesAt(s, i)
       \/ Len(mut'[s]) = Len(mut[s]) /\ mut'[s][i].phase = "sent"

\* C13: every approve and skip first awaits the session; answered without
\* a session, the mutation settles with the error "Not authenticated", its
\* request is never sent, and the stored statuses, drafts and events and
\* the view are as they were; a request is sent only when the session is
\* there, only a request that was sent is handled, and a stored status or
\* event changes only in a step that handles one.
C13_NoSessionNoRequest ==
    [][\A s \in Sessions :
         /\ (Starts(s, "approve") \/ Starts(s, "skip"))
              => /\ mut'[s][Len(mut'[s])].phase = "auth"
                 /\ UNCHANGED <<status, drafts, events>>
         /\ \A i \in DOMAIN mut[s] :
              /\ (SessionAnswered(s, i) /\ ~hasSession[s])
                   => /\ SettlesAt(s, i)
                      /\ toast'[s] = ErrorToast("Not authenticated")
                      /\ UNCHANGED <<status, drafts, events>>
                      /\ UNCHANGED <<page, matchId, isEditing, coverLetter,
                                     answers>>
              /\ (SessionAnswered(s, i) /\ hasSession[s])
                   => /\ ~SettlesAt(s, i)
                      /\ UNCHANGED <<status, drafts, events, toast>>
              /\ (SettlesAt(s, i) /\ mut[s][i].phase = "auth")
                   => ~hasSession[s]
         /\ \A i \in DOMAIN mut[s] :
              (Handled(s, i) /\ mut[s][i].kind \in {"approve", "skip"})
                 => mut[s][i].phase = "sent"
         /\ (status' # status \/ events' # events)
              => \E r \in Sessions : \E i \in DOMAIN mut[r] :
                    /\ Handled(r, i)
                    /\ mut[r][i].kind \in {"approve", "skip"}
                    /\ mut[r][i].phase = "sent"]_vars

\* C13 witness: a session whose auth ended has clicked Approve or Skip on
\* an actionable match: the mutation has settled with the error, nothing
\* is in flight, and the match is still actionable with no submission
\* event.
C13_Witness ==
    \E s \in Sessions :
        /\ page[s] = "draft"
        /\ ~hasSession[s]
        /\ toast[s] = ErrorToast("Not authenticated")
        /\ mut[s] = <<>>
        /\ matchId[s] \in DOMAIN status
        /\ status[matchId[s]] \in ActionableStatuses
        /\ EventsFor(matchId[s]) = {}

\* The notifications of the three onSuccess handlers.
SuccessTitles == {"Draft saved", "Application Approved!", "Job Skipped"}

\* The session's route and local edit state are the same after the step.
ViewKept(s) ==
    /\ page'[s] = page[s]
    /\ matchId'[s] = matchId[s]
    /\ isEditing'[s] = isEditing[s]
    /\ coverLetter'[s] = coverLetter[s]
    /\ answers'[s] = answers[s]

\* The step ends with the destructive "Error" notification shown to s.
ShowsError(s) ==
    /\ toast'[s].title = "Error"
    /\ toast'[s].variant = "destructive"
    /\ toast'[s].description # ""

\* C14: every save, approve or skip that settles either shows its success
\* notification or shows the error notification and keeps the route, the
\* editing mode, the cover letter and the answers of the view; a mutation
\* that settles on anything but the answer "ok" of the store shows the
\* error and keeps the view, and the store answers "ok" only in the step
\* that applies the write asked for; and an approve or skip that fails for
\* want of a session shows the error and keeps the view as well.
C14_FailureShownViewKept ==
    [][\A s \in Sessions : \A i \in DOMAIN mut[s] :
         /\ SettlesAt(s, i)
              => \/ toast'[s].title \in SuccessTitles
                 \/ ShowsError(s) /\ ViewKept(s)
         /\ (SettlesAt(s, i) /\ mut[s][i].reply # Some("ok"))
              => ShowsError(s) /\ ViewKept(s)
         /\ (Handled(s, i) /\ mut'[s][i].reply = Some("ok"))
              => /\ mut[s][i].kind = "save"
                    => drafts' = SaveWrite(mut[s][i])
                 /\ mut[s][i].kind = "approve"
                    => /\ status[mut[s][i].matchId] \in ActionableStatuses
                       /\ status'[mut[s][i].matchId] = "APPLIED"
                 /\ mut[s][i].kind = "skip"
                    => /\ status[mut[s][i].matchId] \in ActionableStatuses
                       /\ status'[mut[s][i].matchId] = "SKIPPED"
         /\ (SettlesAt(s, i) /\ mut[s][i].phase = "auth")
              => ShowsError(s) /\ ViewKept(s)]_vars

\* C14 witness: a save of typed text has failed: the error is shown, the
\* view is still editing with the typed text, and the store still holds
\* other content.
C14_Witness ==
    \E s \in Sessions :
        /\ page[s] = "draft"
        /\ isEditing[s]
        /\ mut[s] = <<>>
        /\ toast[s] = ErrorToast("Failed to save draft.")
        /\ coverLetter[s] \in UserTexts
        /\ \A i \in DraftRowsFor(matchId[s]) :
              drafts[i].cover_letter # Some(coverLetter[s])

\* C15: a Draft view has at most one mutation pending, and while its save,
\* approve or skip is pending it starts no other: none of Save, Approve and
\* Skip can be clicked.
C15_OneMutationInFlight ==
    \A s \in Sessions :
        /\ Cardinality({i \in DOMAIN mut[s] : mut[s][i].mounted}) <= 1
        /\ (\E i \in DOMAIN mut[s] : mut[s][i].mounted) =>
              /\ page[s] = "draft"
              /\ ~ENABLED handleSave(s)
              /\ ~ENABLED handleApprove(s)
              /\ ~ENABLED handleSkip(s)

\* C15 witness: a save is pending in a view that shows the page in editing
\* mode, with gestures left: Save is rendered, and refused only because of
\* the pending mutation.
C15_Witness ==
    \E s \in Sessions :
        /\ ViewMut(s).kind = "save"
        /\ Len(mut[s]) < MaxInFlight
        /\ page[s] = "draft"
        /\ DraftRender(s) = "page"
        /\ isEditing[s]
        /\ acts > 0

\* C16: a save of an existing draft is never refused because of what
\* another session has written: whenever its request is pending the store
\* can apply it, the store answers it "ok", and that answer can be
\* acknowledged with "Draft saved"; and in the step in which the store
\* applies it the stored cover letter and answers become its content,
\* whatever the row held.
C16_LastWriteWins ==
    /\ [](\A s \in Sessions :
            /\ (\E i \in DOMAIN mut[s] :
                   /\ mut[s][i].kind = "save"
                   /\ mut[s][i].draftId # 0
                   /\ mut[s][i].reply = None)
                => ENABLED SaveHandled(s)
            /\ (\E i \in DOMAIN mut[s] :
                   /\ mut[s][i].kind = "save"
                   /\ mut[s][i].draftId # 0
                   /\ mut[s][i].reply # None)
                => ENABLED (/\ SaveSettle(s)
                            /\ toast'[s].title = "Draft saved"))
    /\ [][\A s \in Sessions : \A i \in DOMAIN mut[s] :
            (HandledOf(s, i, "save") /\ mut[s][i].draftId # 0)
            => /\ mut'[s][i].reply = Some("ok")
               /\ Holds(drafts'[mut[s][i].draftId], mut[s][i].cover_letter,
                        mut[s][i].answers_json)]_vars

\* C16 witness: the two sessions, editing at the same time, each saved the
\* same row with a different cover letter, both saves were acknowledged,
\* and the row holds what s2 sent, which the store applied last, not what
\* s1 sent.
C16_Witness ==
    /\ toast["s1"].title = "Draft saved"
    /\ toast["s2"].title = "Draft saved"
    /\ matchId["s1"] = 1 /\ matchId["s2"] = 1
    /\ savedCoverLetter["s1"] # None
    /\ savedCoverLetter["s2"] # None
    /\ savedCoverLetter["s1"] # savedCoverLetter["s2"]
    /\ Cardinality(DraftRowsFor(1)) = 1
    /\ \A i \in DraftRowsFor(1) :
          drafts[i].cover_letter = savedCoverLetter["s2"]

\* The draft rows of match m, by row id.
DraftContentOf(ds, m) ==
    {<<i, ds[i].cover_letter, ds[i].answers_json>> :
        i \in {j \in 1..Len(ds) : ds[j].job_match_id = m}}

\* C17: in every step taken while a match is APPLIED, SUBMITTED or SKIPPED,
\* the draft rows of that match keep their cover_letter and answers_json,
\* and the match gets no further row.
C17_TerminalContentFrozen ==
    [][\A m \in DOMAIN status :
         status[m] \in TerminalStatuses
            => DraftContentOf(drafts', m) = DraftContentOf(drafts, m)]_vars

\* C18: every stored status is one of the five values, and a status only
\* ever changes from DRAFTED or NEEDS_REVIEW to APPLIED, SUBMITTED or
\* SKIPPED: never between DRAFTED and NEEDS_REVIEW, never out of a terminal
\* status.
C18_StatusEdges ==
    /\ [](\A m \in DOMAIN status : status[m] \in Statuses)
    /\ [][\A m \in DOMAIN status :
            status'[m] # status[m]
               => /\ status[m] \in ActionableStatuses
                  /\ status'[m] \in TerminalStatuses]_vars

\* C18 witness: a view has asked for a transition of a match that is
\* already terminal and was refused; the other match is still NEEDS_REVIEW.
C18_Witness ==
    \E s \in Sessions :
        /\ page[s] = "draft"
        /\ toast[s] = ErrorToast("InvalidTransition")
        /\ matchId[s] \in DOMAIN status
        /\ status[matchId[s]] \in TerminalStatuses
        /\ \E m \in DOMAIN status : status[m] = "NEEDS_REVIEW"

\* A step in which the Draft page of session s stops loading: the later of
\* its two first reads is answered.
LoadAnswered(s) ==
    /\ page[s] = "draft" /\ page'[s] = "draft"
    /\ matchId'[s] = matchId[s]
    /\ isLoading(s)
    /\ ~isLoading(s)'

\* The store reads for the job-match query, or for the application-draft
\* query, of key m of session s.
MatchReadByStore(s, m) ==
    /\ cache[s].match[m].reply = None
    /\ cache'[s].match[m].reply # None
DraftReadByStore(s, m) ==
    /\ cache[s].draft[m].reply = None
    /\ cache'[s].draft[m].reply # None

\* The job-match query, or the application-draft query, of the Draft page
\* of session s delivers a value.
MatchDelivered(s) ==
    /\ page[s] = "draft" /\ page'[s] = "draft"
    /\ matchId'[s] = matchId[s]
    /\ match'[s] # match[s]
DraftAnswered(s) ==
    /\ page[s] = "draft" /\ page'[s] = "draft"
    /\ matchId'[s] = matchId[s]
    /\ draft'[s] # draft[s]

\* C19: a read of job_matches that the store answers returns null for a
\* match the user does not have and the row as stored otherwise, a read of
\* application_drafts returns null for a match without a draft row, and
\* the queries deliver what was read, a null leaving the working copy
\* alone, neither with an error or a notification; a page that has loaded
\* null for the match shows the "Job match not found." card; a page that
\* stops loading with the match and no draft shows the page with the
\* working copy as it was, and a page that mounts without a cached draft
\* row starts with an empty one; and in such a view, once in editing mode,
\* Save can be clicked, and a save without a draft id that the store
\* applies creates the row.
C19_LoadMatch ==
    /\ [][\A s \in Sessions :
            /\ \A m \in CacheKeys :
                  /\ (MatchReadByStore(s, m) /\ "job-match" \notin unreachable)
                     => cache'[s].match[m].reply = Some(Returned(
                           IF m \in DOMAIN status
                           THEN [st |-> "row", status |-> status[m]]
                           ELSE [st |-> "null", status |-> ""]))
                  /\ (/\ DraftReadByStore(s, m)
                      /\ "application-draft" \notin unreachable
                      /\ DraftRowsFor(m) = {})
                     => cache'[s].draft[m].reply = Some(Returned(NoRow))
            /\ MatchDelivered(s) =>
                  /\ matchQuery(s).reply # None
                  /\ Some(match'[s]) = TheValue(matchQuery(s).reply).data
                  /\ "job-match" \notin queryError'[s]
                  /\ toast'[s] = toast[s]
            /\ DraftAnswered(s) =>
                  /\ draftQuery(s).reply # None
                  /\ Some(draft'[s]) = TheValue(draftQuery(s).reply).data
                  /\ "application-draft" \notin queryError'[s]
                  /\ toast'[s] = toast[s]
                  /\ draft'[s] = NoRow
                       => /\ coverLetter'[s] = coverLetter[s]
                          /\ answers'[s] = answers[s]
            /\ (LoadAnswered(s) /\ match'[s].st = "row" /\ draft'[s] = NoRow) =>
                  /\ DraftRender(s)' = "page"
                  /\ coverLetter'[s] = coverLetter[s]
                  /\ answers'[s] = answers[s]
            /\ (page[s] # "draft" /\ page'[s] = "draft"
                   /\ draft'[s].st # "row") =>
                  /\ coverLetter'[s] = ""
                  /\ answers'[s] = EmptyAnswers]_vars
    /\ [](\A s \in Sessions :
            /\ (/\ page[s] = "draft"
                /\ ~isLoading(s)
                /\ match[s].st = "null"
                /\ "job-match" \notin queryError[s])
                  => DraftRender(s) = "not-found"
            /\ (/\ page[s] = "draft"
                /\ match[s].st = "row"
                /\ draft[s] = NoRow
                /\ queryError[s] \cap {"job-match", "application-draft"} = {}
                /\ isEditing[s]
                /\ mut[s] = <<>>
                /\ acts > 0) => ENABLED handleSave(s))
    /\ [][\A s \in Sessions : \A k \in DOMAIN mut[s] :
            (HandledOf(s, k, "save") /\ mut[s][k].draftId = 0)
            => /\ mut'[s][k].reply = Some("ok")
               /\ \E i \in 1..Len(drafts') :
                     /\ i > Len(drafts)
                     /\ drafts'[i].job_match_id = mut[s][k].matchId
                     /\ Holds(drafts'[i], mut[s][k].cover_letter,
                              mut[s][k].answers_json)]_vars

\* C19 witness: a view whose load found the match and no draft has made the
\* first save: the page is shown, the save is acknowledged, and the one row
\* of the match is the row the save created.
C19_Witness ==
    \E s \in Sessions :
        /\ page[s] = "draft"
        /\ DraftRender(s) = "page"
        /\ match[s].st = "row"
        /\ draft[s] = NoRow
        /\ toast[s].title = "Draft saved"
        /\ Cardinality(DraftRowsFor(matchId[s])) = 1
        /\ \A i \in DraftRowsFor(matchId[s]) :
              /\ drafts[i].tailoring_notes = None
              /\ Holds(drafts[i], coverLetter[s], answers[s])

\* C20: whenever a read of the page a session shows has failed (the
\* job-matches list of the inbox, the job-match or the application-draft of
\* the Draft page), that page shows its error card.
C20_ReadFailureShown ==
    \A s \in Sessions :
        /\ (page[s] = "inbox" /\ "job-matches" \in queryError[s])
              => InboxRender(s) = "error"
        /\ (page[s] = "draft" /\ "job-match" \in queryError[s])
              => DraftRender(s) = "error"
        /\ (page[s] = "draft" /\ "application-draft" \in queryError[s])
              => DraftRender(s) = "error"

\* A step in which the store applies, or in which settles, the save at
\* position i of session s, sent for the existing row the view had loaded.
SaveOfExistingHandled(s, i) ==
    HandledOf(s, i, "save") /\ mut[s][i].draftId # 0
SaveOfExistingSettles(s, i) ==
    Settles(s, i, "save") /\ mut[s][i].draftId # 0

\* C21: a saveEdit on an existing draft, when the store applies it and
\* however it settles, leaves every stored status, the number of draft
\* rows, every row's match and tailoring_notes and every other row as they
\* were, and the view's review warning and its list of issues as shown;
\* and the re-read of the draft that follows shows the same warning and
\* the same issues.
C21_SaveKeepsReviewSignal ==
    [][\A s \in Sessions :
         /\ \A k \in DOMAIN mut[s] :
            (SaveOfExistingHandled(s, k) \/ SaveOfExistingSettles(s, k)) =>
               /\ status' = status
               /\ Len(drafts') = Len(drafts)
               /\ \A i \in 1..Len(drafts) :
                     /\ drafts'[i].tailoring_notes = drafts[i].tailoring_notes
                     /\ drafts'[i].job_match_id = drafts[i].job_match_id
                     /\ i # mut[s][k].draftId => drafts'[i] = drafts[i]
               /\ NeedsReviewWarning(s)' = NeedsReviewWarning(s)
               /\ IssuesShown(s)' = IssuesShown(s)
         /\ (/\ page[s] = "draft" /\ page'[s] = "draft"
             /\ matchId'[s] = matchId[s]
             /\ draft[s].st = "row" /\ draft'[s].st = "row"
             /\ draft'[s] # draft[s]) =>
               /\ NeedsReviewWarning(s)' = NeedsReviewWarning(s)
               /\ IssuesShown(s)' = IssuesShown(s)]_vars

\* C21 witness: a view of a NEEDS_REVIEW match saved typed text over the
\* draft the pipeline wrote with an issue, and has re-read it: the row holds
\* the typed text and still the issue, the match is still NEEDS_REVIEW, and
\* the warning is shown with the issue.
C21_Witness ==
    \E s \in Sessions :
        /\ toast[s].title = "Draft saved"
        /\ draft[s].st = "row"
        /\ draft[s].cover_letter \in {Some(t) : t \in UserTexts}
        /\ drafts[draft[s].id].cover_letter = draft[s].cover_letter
        /\ drafts[draft[s].id].tailoring_notes = Some([issues |-> <<"issue">>])
        /\ matchId[s] \in DOMAIN status
        /\ status[matchId[s]] = "NEEDS_REVIEW"
        /\ NeedsReviewWarning(s)
        /\ IssuesShown(s) = <<"issue">>

\* A step in which session s presses Cancel: a gesture that takes the view
\* out of editing mode and settles no mutation (a save that succeeds also
\* leaves editing mode, but is no gesture).
PressesCancel(s) ==
    /\ acts' < acts
    /\ page[s] = "draft" /\ page'[s] = "draft"
    /\ isEditing[s] /\ ~isEditing'[s]
    /\ mut'[s] = mut[s]

\* C22: Cancel changes nothing but the editing mode: the view's cover
\* letter, answers, fetched draft and notification, and the store, are as
\* they were; and an approve started from a view out of editing mode
\* carries the view's cover letter and answers as they are at the click,
\* for the match of the view, and they are what is sent once the session
\* has been read.
C22_CancelKeepsEdits ==
    [][\A s \in Sessions :
         /\ PressesCancel(s) =>
               /\ coverLetter'[s] = coverLetter[s]
               /\ answers'[s] = answers[s]
               /\ draft'[s] = draft[s]
               /\ toast'[s] = toast[s]
               /\ UNCHANGED <<status, drafts, events>>
         /\ (Starts(s, "approve") /\ ~isEditing[s]) =>
               /\ mut'[s][Len(mut'[s])].cover_letter = coverLetter[s]
               /\ mut'[s][Len(mut'[s])].answers_json = answers[s]
               /\ mut'[s][Len(mut'[s])].matchId = matchId[s]
         /\ \A i \in DOMAIN mut[s] :
               (mut[s][i].phase = "auth" /\ Len(mut'[s]) = Len(mut[s])) =>
                  /\ mut'[s][i].cover_letter = mut[s][i].cover_letter
                  /\ mut'[s][i].answers_json = mut[s][i].answers_json]_vars

\* C22 witness: the view loaded the generated draft, the user typed a cover
\* letter, pressed Cancel without ever saving (no save has settled in the
\* view) and clicked Approve: the request in flight carries the typed text
\* while the fetched draft and the stored row hold the generated text.
C22_Witness ==
    \E s \in Sessions :
        /\ ViewMut(s).kind = "approve"
        /\ ViewMut(s).phase = "sent"
        /\ page[s] = "draft"
        /\ ~isEditing[s]
        /\ toast[s] = NoToast
        /\ ViewMut(s).cover_letter \in UserTexts
        /\ coverLetter[s] = ViewMut(s).cover_letter
        /\ draft[s].st = "row"
        /\ draft[s].cover_letter = Some(GeneratedText)
        /\ drafts[draft[s].id].cover_letter = Some(GeneratedText)

\* A step in which the application-draft query of the Draft page that
\* session s shows delivers a value that differs from the one the view held.
DraftDelivered(s) ==
    /\ page[s] = "draft" /\ page'[s] = "draft"
    /\ matchId'[s] = matchId[s]
    /\ draft'[s] # draft[s]

\* C23: when the draft query delivers a differing value that is a row, the
\* view's cover letter and answers become the fetched ones (null read as ""
\* and {}), whatever they were; when it delivers no row they stay as they
\* were; and apart from the user's gestures nothing else changes the
\* working copy of a view that stays on its page.
C23_DeliveryOverwritesWorkingCopy ==
    [][\A s \in Sessions :
         /\ DraftDelivered(s) =>
               IF draft'[s].st = "row"
               THEN /\ coverLetter'[s] = CoverLetterOrEmpty(draft'[s].cover_letter)
                    /\ answers'[s] = AnswersOrEmpty(draft'[s].answers_json)
               ELSE /\ coverLetter'[s] = coverLetter[s]
                    /\ answers'[s] = answers[s]
         /\ (/\ page[s] = "draft" /\ page'[s] = "draft"
             /\ matchId'[s] = matchId[s]
             /\ acts' = acts
             /\ draft'[s] = draft[s]) =>
               /\ coverLetter'[s] = coverLetter[s]
               /\ answers'[s] = answers[s]]_vars

\* C23 witness: s1 is editing with a typed cover letter it has not saved,
\* its fetched draft still holds the generated text, the other session has
\* saved a different text to the same row, and the re-read of s1 can now
\* deliver it and replace what s1 typed.
C23_Witness ==
    /\ page["s1"] = "draft" /\ isEditing["s1"]
    /\ mut["s1"] = <<>> /\ toast["s1"] = NoToast
    /\ coverLetter["s1"] = "a"
    /\ draft["s1"].st = "row"
    /\ draft["s1"].cover_letter = Some(GeneratedText)
    /\ toast["s2"].title = "Draft saved"
    /\ drafts[draft["s1"].id].cover_letter = Some("b")
    /\ ENABLED (DraftQuery("s1") /\ coverLetter'["s1"] = "b")

\* A step in which the fetch of the AI-gateway query of session s is
\* answered, or run-daily is invoked.
KeywordsSettles(s) ==
    /\ page[s] = "status"
    /\ \/ keywordsCheck(s).fetching /\ ~keywordsCheck(s)'.fetching
       \/ runDaily' # runDaily

\* C24: the AI-gateway check is never in error; its query first reads the
\* session: without one it settles ok at once and run-daily is not
\* invoked, with one nothing settles yet and run-daily is invoked next,
\* exactly once, and the check is ok whatever the invocation did; and the
\* headline is "Checking system status..." while some query is loading,
\* otherwise "Some systems need attention" iff some query is in error,
\* otherwise "All systems operational".
C24_GatewayCheckAlwaysOk ==
    /\ [](\A s \in Sessions :
            /\ keywordsCheck(s).status # "error"
            /\ checks(s)[4].status \in {"checking", "ok"}
            /\ keywordsFetch[s] # None => ENABLED KeywordsInvoke(s)
            /\ Headline(s) =
                 IF \E k \in StatusKeys :
                       /\ statusQuery[s][k].status = "pending"
                       /\ statusQuery[s][k].fetching
                 THEN "Checking system status..."
                 ELSE IF \E k \in StatusKeys : statusQuery[s][k].status = "error"
                 THEN "Some systems need attention"
                 ELSE "All systems operational")
    /\ [][\A s \in Sessions :
            /\ KeywordsSettles(s) =>
                  /\ checks(s)[4]'.status = "ok"
                  /\ keywordsFetch'[s] = None
                  /\ IF keywordsFetch[s] = None
                     THEN ~hasSession[s] /\ runDaily' = runDaily
                     ELSE /\ Len(runDaily') = Len(runDaily) + 1
                          /\ runDaily'[Len(runDaily')] \in TriggerOutcomes
            /\ (keywordsFetch[s] = None /\ keywordsFetch'[s] # None) =>
                  /\ hasSession[s]
                  /\ runDaily' = runDaily
                  /\ keywordsCheck(s)' = keywordsCheck(s)]_vars

\* C24 witness: with a session, run-daily has been invoked twice by the
\* check, once throwing and once returning a failure that does not mean
\* "profile incomplete"; every query has settled, the AI-gateway check is
\* ok, the database check is in error and the headline asks for attention.
C24_Witness ==
    \E s \in Sessions :
        /\ page[s] = "status"
        /\ hasSession[s]
        /\ \E i, j \in DOMAIN runDaily :
              /\ runDaily[i].kind = "throws"
              /\ runDaily[j].kind = "returns"
              /\ runDaily[j].error # None
              /\ ~ProfileIncomplete(runDaily[j])
        /\ \A k \in StatusKeys : statusQuery[s][k].status # "pending"
        /\ checks(s)[4].status = "ok"
        /\ checks(s)[1].status = "error"
        /\ Headline(s) = "Some systems need attention"

====
